---------------------------- MODULE Spec2Model ----------------------------
(***************************************************************************)
(* The page renderer of the rebranding site: the rewrite-on-mount effect   *)
(* of src/src/components/PageRenderer.tsx (the base renderer) and of its   *)
(* stylesheet-waiting variant (src/unnamed/part_008), and the string and   *)
(* DOM functions the effect is made of.                                    *)
(*                                                                         *)
(* Spec, FairSpec      the effect of the base renderer and its callbacks   *)
(* SpecStyle           the effect of the stylesheet-waiting renderer       *)
(* SpecUrl             getAssetFilename and fixAssetUrl                    *)
(* SpecBody            the rewriting of the body: asset URLs, links,       *)
(*                     replaceBranding, removeContactInfo and              *)
(*                     replaceContactInfo                                  *)
(* SpecFixups          the error handlers and probes of the inserted       *)
(*                     images                                              *)
(* SpecLogo            the size of the replacement logo                    *)
(* SpecSettings        the rewriting of data-settings attributes           *)
(* SpecRoute           the rewriting of the template by the Shopify route  *)
(***************************************************************************)
EXTENDS Integers, Sequences, FiniteSets, TLC

VARIABLES
  \* Spec, FairSpec: the PageRenderer component and the document it writes to
  html,             \* the html prop
  effectDue,        \* html changed and the effect has not run for it yet
  phase,            \* where the running effect stands; "idle" between runs
  run,              \* the number of effect runs started
  isLoading,        \* useState(true)
  stylesLoadedRef,  \* useRef(new Set())
  scriptsLoadedRef, \* useRef(new Set())
  docHead,          \* the elements of document.head
  cleanedRun,       \* the run that computed cleanedHtml, 0 for none
  containerRun,     \* the run whose cleanedHtml is the container's innerHTML
  fixupsRun,        \* the run whose image handlers are installed
  scriptStatus,     \* appended external script -> "pending", "load", "error"
  waiting,          \* run -> the scripts its Promise.all still waits for
  timers,           \* pending setTimeout callbacks that call setIsLoading(false)
  revealed,         \* the runs whose callback has called setIsLoading(false)

  \* SpecStyle: the renderer that waits for its stylesheets (part_008)
  styHtml,          \* the html prop
  styDue,           \* html changed and the effect has not run for it yet
  styRun,           \* the number of effect runs
  styLoading,       \* isLoading
  styStylesRef,     \* stylesLoadedRef
  styScriptsRef,    \* scriptsLoadedRef
  styLinks,         \* injected stylesheet link -> its events and its promise
  styScripts,       \* appended external script -> "pending", "load", "error"
  styWaiting,       \* run -> the scripts its readiness still waits for
  styTasks,         \* pending animation frames and reveal timers
  styRevealed,      \* the runs whose timer has called setIsLoading(false)

  \* SpecUrl
  uReq,       \* the URL under test, by its components
  uUrl,       \* the URL as written in the page
  uFilename,  \* what getAssetFilename(url) returned
  uFixed,    \* what fixAssetUrl(url) returned
  uFirst,     \* what the fixAssetUrl that converts rimalweb.net first returned
  uOriginal,  \* the URL with alluredigital.net for rimalweb.net
  uFixedOriginal,  \* what fixAssetUrl(uOriginal) returned
  uFirstOriginal,  \* the same of the fixAssetUrl that converts first
  upc,        \* "start", "named", "fixed", "first", "original"

  \* SpecBody
  bRend,        \* the renderer: "base" or "part_008"
  bReq,         \* the scraped body, by its components
  bBody,        \* doc.body, which the DOM passes rewrite in place
  bodyHtml,     \* body.innerHTML after the string passes
  cleanedHtml,  \* what replaceBranding, then the contact pass returned
  container,    \* containerRef.current.innerHTML
  bpc,          \* "parsed", "dom", "html", "branded", "cleaned", "inserted"

  \* SpecFixups: the image handlers installed after the content is inserted
  imgs,          \* the img elements of the container, each with its handler and probe
  welcome,       \* the scroll images of the Welcome section, each with its probes
  fixpc,        \* "inserted", "installed"

  \* SpecLogo: the replacement of a header or footer logo
  logoImg,       \* the width and height attributes of the logo img of the page
  logoOriginal,  \* originalWidth and originalHeight
  logoNew,       \* the width and height of the replacement logo
  logopc,       \* "found", "measured", "replaced"

  \* SpecSettings: the rewriting of a data-settings attribute
  dsReq,         \* the data-settings value of the page, by its components
  dsMatch,       \* the attribute as bodyHtml writes it
  dsOut,         \* what the replace callback returned
  dsInner,       \* the attribute in containerRef.current.innerHTML
  dspc,         \* "html", "rewritten", "inserted"

  \* SpecRoute: the Shopify route
  rtTemplate,    \* the HTML file the route read
  rtHtml,        \* the html handed to PageRenderer
  rtpc          \* "read", "rendered"

lifeVars ==
  <<html, effectDue, phase, run, isLoading, stylesLoadedRef, scriptsLoadedRef, docHead,
    cleanedRun, containerRun, fixupsRun, scriptStatus, waiting, timers, revealed>>

styleVars ==
  <<styHtml, styDue, styRun, styLoading, styStylesRef, styScriptsRef, styLinks, styScripts,
    styWaiting, styTasks, styRevealed>>

urlVars == <<uReq, uUrl, uFilename, uFixed, uFirst, uOriginal, uFixedOriginal, uFirstOriginal, upc>>

bodyVars == <<bRend, bReq, bBody, bodyHtml, cleanedHtml, container, bpc>>

fixupsVars == <<imgs, welcome, fixpc>>

logoVars == <<logoImg, logoOriginal, logoNew, logopc>>

settingsVars == <<dsReq, dsMatch, dsOut, dsInner, dspc>>

routeVars == <<rtTemplate, rtHtml, rtpc>>

\* the variables a specification leaves alone
notLife == <<styleVars, urlVars, bodyVars, fixupsVars, logoVars, settingsVars, routeVars>>

notStyle == <<lifeVars, urlVars, bodyVars, fixupsVars, logoVars, settingsVars, routeVars>>

notUrl == <<lifeVars, styleVars, bodyVars, fixupsVars, logoVars, settingsVars, routeVars>>

notBody == <<lifeVars, styleVars, urlVars, fixupsVars, logoVars, settingsVars, routeVars>>

notFixups == <<lifeVars, styleVars, urlVars, bodyVars, logoVars, settingsVars, routeVars>>

notLogo == <<lifeVars, styleVars, urlVars, bodyVars, fixupsVars, settingsVars, routeVars>>

notSettings == <<lifeVars, styleVars, urlVars, bodyVars, fixupsVars, logoVars, routeVars>>

notRoute == <<lifeVars, styleVars, urlVars, bodyVars, fixupsVars, logoVars, settingsVars>>

\* the variables of the other specifications keep these values
IdleLife ==
  /\ html = {} /\ effectDue = FALSE /\ phase = "off" /\ run = 0 /\ isLoading = TRUE
  /\ stylesLoadedRef = {} /\ scriptsLoadedRef = {} /\ docHead = {} /\ cleanedRun = 0
  /\ containerRun = 0 /\ fixupsRun = 0 /\ scriptStatus = << >> /\ waiting = << >>
  /\ timers = {} /\ revealed = {}

IdleStyle ==
  /\ styHtml = {} /\ styDue = FALSE /\ styRun = 0 /\ styLoading = TRUE /\ styStylesRef = {}
  /\ styScriptsRef = {} /\ styLinks = << >> /\ styScripts = << >> /\ styWaiting = << >>
  /\ styTasks = {} /\ styRevealed = {}

IdleUrl ==
  /\ uReq = {} /\ uUrl = << >> /\ uFilename = << >> /\ uFixed = << >> /\ uFirst = << >>
  /\ uOriginal = << >> /\ uFixedOriginal = << >> /\ uFirstOriginal = << >> /\ upc = "off"

IdleBody ==
  /\ bRend = "none" /\ bReq = {} /\ bBody = {} /\ bodyHtml = {} /\ cleanedHtml = {}
  /\ container = {} /\ bpc = "off"

IdleFixups ==
  /\ imgs = << >> /\ welcome = << >> /\ fixpc = "off"

IdleLogo ==
  /\ logoImg = << >> /\ logoOriginal = << >> /\ logoNew = << >> /\ logopc = "off"

IdleSettings ==
  /\ dsReq = {} /\ dsMatch = << >> /\ dsOut = << >> /\ dsInner = << >> /\ dspc = "off"

IdleRoute ==
  /\ rtTemplate = << >> /\ rtHtml = << >> /\ rtpc = "off"

(***************************************************************************)
(* Strings.  A JavaScript string is a sequence of one-character strings,   *)
(* so that startsWith, includes, split, replace and the regular            *)
(* expressions of the source are computed character by character.          *)
(***************************************************************************)

\* the value null of `string | null`
Null == <<"<null>">>

UpperToLower ==
  [A |-> "a", B |-> "b", C |-> "c", D |-> "d", E |-> "e", F |-> "f", G |-> "g",
   H |-> "h", I |-> "i", J |-> "j", K |-> "k", L |-> "l", M |-> "m", N |-> "n",
   O |-> "o", P |-> "p", Q |-> "q", R |-> "r", S |-> "s", T |-> "t", U |-> "u",
   V |-> "v", W |-> "w", X |-> "x", Y |-> "y", Z |-> "z"]

LowerLetters == {UpperToLower[c] : c \in DOMAIN UpperToLower}

Digits == {"0","1","2","3","4","5","6","7","8","9"}

Lower(c) == IF c \in DOMAIN UpperToLower THEN UpperToLower[c] ELSE c

LowerS(s) == [i \in 1..Len(s) |-> Lower(s[i])]

IsAlpha(c) == Lower(c) \in LowerLetters

IsDigit(c) == c \in Digits

\* \w of a JavaScript regular expression
IsWordChar(c) == IsAlpha(c) \/ IsDigit(c) \/ c = "_"

\* p occurs in s at position i (1-based); ci: compare ignoring letter case
MatchAt(s, p, i, ci) ==
  /\ i >= 1
  /\ i + Len(p) - 1 <= Len(s)
  /\ \A k \in 1..Len(p) :
        IF ci THEN Lower(s[i + k - 1]) = Lower(p[k]) ELSE s[i + k - 1] = p[k]

StartsWith(s, p) == MatchAt(s, p, 1, FALSE)

EndsWith(s, p) == MatchAt(s, p, Len(s) - Len(p) + 1, FALSE)

Includes(s, p) == \E i \in 1..(Len(s) + 1) : MatchAt(s, p, i, FALSE)

IncludesCI(s, p) == \E i \in 1..(Len(s) + 1) : MatchAt(s, p, i, TRUE)

\* \b of a JavaScript regular expression, between s[i-1] and s[i]
WordBoundary(s, i) ==
  LET before == i > 1 /\ i - 1 <= Len(s) /\ IsWordChar(s[i - 1])
      after  == i >= 1 /\ i <= Len(s) /\ IsWordChar(s[i])
  IN  before # after

\* p matches at i, as /p/ or /\bp\b/, with or without the i flag
PatternAt(s, p, i, ci, wb) ==
  /\ MatchAt(s, p, i, ci)
  /\ wb => (WordBoundary(s, i) /\ WordBoundary(s, i + Len(p)))

\* the least element of a set of positions, 0 when it is empty
LeastOf(hits) == IF hits = {} THEN 0 ELSE CHOOSE j \in hits : \A k \in hits : j <= k

\* the least position >= i where p matches, 0 when none
NextMatch(s, p, i, ci, wb) == LeastOf({j \in i..Len(s) : PatternAt(s, p, j, ci, wb)})

RECURSIVE ReplaceFrom(_, _, _, _, _, _, _)
\* the replacement from position i on, the next match being at j
ReplaceAt(s, p, r, i, ci, wb, all, j) ==
  IF j = 0 THEN SubSeq(s, i, Len(s))
  ELSE SubSeq(s, i, j - 1) \o r
       \o (IF all THEN ReplaceFrom(s, p, r, j + Len(p), ci, wb, all)
                  ELSE SubSeq(s, j + Len(p), Len(s)))

\* String.prototype.replace from position i on: every match when all, the
\* leftmost one otherwise; p is never empty
ReplaceFrom(s, p, r, i, ci, wb, all) ==
  ReplaceAt(s, p, r, i, ci, wb, all, NextMatch(s, p, i, ci, wb))

\* s.replace('p', r): the first occurrence of a string pattern
ReplaceFirst(s, p, r) == ReplaceFrom(s, p, r, 1, FALSE, FALSE, FALSE)

\* s.replace(/p/g, r)
ReplaceAll(s, p, r) == ReplaceFrom(s, p, r, 1, FALSE, FALSE, TRUE)

\* s.replace(/p/gi, r)
ReplaceAllCI(s, p, r) == ReplaceFrom(s, p, r, 1, TRUE, FALSE, TRUE)

\* s.replace(/\bp\b/gi, r)
ReplaceWordCI(s, p, r) == ReplaceFrom(s, p, r, 1, TRUE, TRUE, TRUE)

\* the least position >= 1 of a character of cs in s, Len(s) + 1 when none
FirstOf(s, cs) ==
  IF \E i \in 1..Len(s) : s[i] \in cs
  THEN CHOOSE i \in 1..Len(s) : s[i] \in cs /\ \A j \in 1..(i - 1) : s[j] \notin cs
  ELSE Len(s) + 1

\* the greatest position of c in s, 0 when none
LastIndexOf(s, c) ==
  IF \E i \in 1..Len(s) : s[i] = c
  THEN CHOOSE i \in 1..Len(s) : s[i] = c /\ \A j \in (i + 1)..Len(s) : s[j] # c
  ELSE 0

\* the least position >= i of c in s, 0 when none
IndexFrom(s, c, i) == LeastOf({j \in i..Len(s) : s[j] = c})

RECURSIVE SplitFrom(_, _, _)
\* s.split(c) from position i on, the next separator being at j
SplitAt(s, c, i, j) ==
  IF j = 0 THEN <<SubSeq(s, i, Len(s))>>
  ELSE <<SubSeq(s, i, j - 1)>> \o SplitFrom(s, c, j + 1)

\* s.split(c) for a one-character separator, from position i on
SplitFrom(s, c, i) == SplitAt(s, c, i, IndexFrom(s, c, i))

Split(s, c) == SplitFrom(s, c, 1)

\* arr.filter(p => p)
FilterNonEmpty(arr) == SelectSeq(arr, LAMBDA p : p # << >>)

RECURSIVE Join(_, _)
\* arr.join(sep)
Join(arr, sep) ==
  IF Len(arr) = 0 THEN << >>
  ELSE IF Len(arr) = 1 THEN arr[1]
       ELSE arr[1] \o sep \o Join(Tail(arr), sep)

IsWhite(c) == c \in {" ", "\n", "\t"}

RECURSIVE TrimStart(_)
TrimStart(s) == IF s # << >> /\ IsWhite(s[1]) THEN TrimStart(Tail(s)) ELSE s

RECURSIVE TrimEnd(_)
TrimEnd(s) ==
  IF s # << >> /\ IsWhite(s[Len(s)]) THEN TrimEnd(SubSeq(s, 1, Len(s) - 1)) ELSE s

\* s.trim()
Trim(s) == TrimEnd(TrimStart(s))

(***************************************************************************)
(* new URL(url, 'https://alluredigital.net'), for the URLs of a scraped    *)
(* page: an optional scheme, '//' and an authority for http(s), a path, a  *)
(* query and a fragment.  The host is lower-cased by the parser; the path, *)
(* the query and the fragment are kept as written (the inputs hold no dot  *)
(* segment, backslash, port, credentials or character to percent-encode).  *)
(***************************************************************************)

BaseHost == <<"a","l","l","u","r","e","d","i","g","i","t","a","l",".","n","e","t">>

SchemeChars == LowerLetters \cup Digits \cup {"+", "-", "."}

\* the scheme ends at the first ':', at position c
SchemeEndAt(url, c) ==
  IF /\ c <= Len(url)
     /\ c > 1
     /\ IsAlpha(url[1])
     /\ \A k \in 1..(c - 1) : Lower(url[k]) \in SchemeChars
  THEN c ELSE 0

\* the position of the ':' that ends a scheme, 0 when url starts with none
SchemeEnd(url) == SchemeEndAt(url, FirstOf(url, {":"}))

SpecialSchemes == {<<"h","t","t","p">>, <<"h","t","t","p","s">>}

\* code points that make the host parser fail
ForbiddenHostChars == {" ", "<", ">", "^", "|", "%", "[", "]"}

RECURSIVE SkipSlashes(_)
SkipSlashes(s) == IF s # << >> /\ s[1] = "/" THEN SkipSlashes(Tail(s)) ELSE s

\* `x || dflt` for a string
OrDefault(x, dflt) == IF x = << >> THEN dflt ELSE x

\* the path ends at q, the first '?' or '#'; the query ends at h, the first '#'
PathQueryHashAt(rest, dflt, q, h) ==
  [pathname |-> OrDefault(SubSeq(rest, 1, q - 1), dflt),
   search   |-> IF q <= Len(rest) /\ rest[q] = "?" /\ h - q > 1
                THEN SubSeq(rest, q, h - 1) ELSE << >>,
   hash     |-> IF Len(rest) - h >= 1 THEN SubSeq(rest, h, Len(rest)) ELSE << >>]

\* path, query and fragment of what follows the authority (or the scheme)
PathQueryHash(rest, dflt) ==
  PathQueryHashAt(rest, dflt, FirstOf(rest, {"?", "#"}), FirstOf(rest, {"#"}))

\* the URL record of a host and what follows it
AuthorityOf(scheme, host, pqh) ==
  IF host = << >> \/ \E k \in 1..Len(host) : host[k] \in ForbiddenHostChars
  THEN [ok |-> FALSE]
  ELSE [ok |-> TRUE, protocol |-> scheme, hostname |-> host,
        pathname |-> pqh.pathname, search |-> pqh.search, hash |-> pqh.hash]

\* the authority ends before position e
ParseAuthorityAt(scheme, afterSlashes, e) ==
  AuthorityOf(scheme, LowerS(SubSeq(afterSlashes, 1, e - 1)),
              PathQueryHash(SubSeq(afterSlashes, e, Len(afterSlashes)), <<"/">>))

\* scheme://authority/path?query#fragment, after the scheme and its slashes
ParseAuthority(scheme, afterSlashes) ==
  ParseAuthorityAt(scheme, afterSlashes, FirstOf(afterSlashes, {"/", "?", "#"}))

\* data:, mailto:, tel:, javascript: - an opaque path, no host
OpaqueURL(scheme, pqh) ==
  [ok |-> TRUE, protocol |-> scheme, hostname |-> << >>,
   pathname |-> pqh.pathname, search |-> pqh.search, hash |-> pqh.hash]

\* a URL with a scheme
AbsoluteURL(scheme, rest) ==
  IF scheme \in SpecialSchemes THEN ParseAuthority(scheme, SkipSlashes(rest))
  ELSE OpaqueURL(scheme, PathQueryHash(rest, << >>))

\* a path resolved against the base
RelativeURL(pqh) ==
  [ok |-> TRUE, protocol |-> <<"h","t","t","p","s">>, hostname |-> BaseHost,
   pathname |-> IF pqh.pathname[1] = "/" THEN pqh.pathname ELSE <<"/">> \o pqh.pathname,
   search |-> pqh.search, hash |-> pqh.hash]

\* the URL whose scheme ends at c, or that has none when c = 0
ParseURLAt(url, c) ==
  IF c > 0 THEN AbsoluteURL(LowerS(SubSeq(url, 1, c - 1)), SubSeq(url, c + 1, Len(url)))
  ELSE IF StartsWith(url, <<"/","/">>) THEN ParseAuthority(<<"h","t","t","p","s">>, SkipSlashes(url))
  ELSE RelativeURL(PathQueryHash(url, <<"/">>))

ParseURL(url) == ParseURLAt(url, SchemeEnd(url))

(***************************************************************************)
(* getAssetFilename                                                        *)
(***************************************************************************)

\* `filename || null`
OrNull(filename) == IF filename = << >> THEN Null ELSE filename

\* domain + pathname, '/' -> '_', cut at the first '?'
DomainPathFilename(u) ==
  OrNull(Split(ReplaceAll(ReplaceFirst(u.hostname, <<"w","w","w",".">>, << >>) \o u.pathname,
                          <<"/">>, <<"_">>), "?")[1])

LitespeedFilenameDropsDomain(u) ==
  OrNull(Split(ReplaceAll(u.pathname, <<"/">>, <<"_">>), "?")[1])

LitespeedFilename(u) == DomainPathFilename(u)

UploadsFilenameKeepsQuery(u) ==
  OrNull(ReplaceAll(ReplaceFirst(u.hostname, <<"w","w","w",".">>, << >>) \o u.pathname \o u.search,
                    <<"/">>, <<"_">>))

UploadsFilename(u) == DomainPathFilename(u)

\* the body of getAssetFilename after `new URL`
FilenameOf(urlObj) ==
  IF ~urlObj.ok THEN Null
  ELSE IF Len(FilterNonEmpty(Split(urlObj.pathname, "/"))) = 0 THEN Null
  ELSE IF Includes(urlObj.pathname, <<"/","l","i","t","e","s","p","e","e","d","/">>) THEN LitespeedFilename(urlObj)
  ELSE IF Includes(urlObj.pathname, <<"/","w","p","-","c","o","n","t","e","n","t","/","u","p","l","o","a","d","s","/">>) THEN UploadsFilename(urlObj)
  ELSE DomainPathFilename(urlObj)

GetAssetFilename(url) == FilenameOf(ParseURL(url))

(***************************************************************************)
(* fixAssetUrl                                                             *)
(***************************************************************************)

\* the length of the longest run of digits of s that ends at position e
DigitsBefore(s, e) ==
  IF e >= 1 /\ e <= Len(s) /\ IsDigit(s[e])
  THEN CHOOSE n \in 1..e :
         /\ \A k \in (e - n + 1)..e : IsDigit(s[k])
         /\ (e - n = 0 \/ ~IsDigit(s[e - n]))
  ELSE 0

\* the position of the '.' of a final extension (\.[a-z]+)$, 0 when none
FinalExtension(s) ==
  LET d == LastIndexOf(s, ".") IN
  IF d > 0 /\ d < Len(s) /\ \A k \in (d + 1)..Len(s) : IsAlpha(s[k]) THEN d ELSE 0

\* the '-' of -WxH, the 'x' being at x after w digits; 0 when none
SizeDash(filename, x, w) ==
  IF w > 0 /\ x - 1 - w >= 1 /\ filename[x - 1 - w] = "-" THEN x - 1 - w ELSE 0

\* the '-' of -WxH, the 'x' being expected at x; 0 when none
SizeX(filename, x) ==
  IF x >= 1 /\ Lower(filename[x]) = "x"
  THEN SizeDash(filename, x, DigitsBefore(filename, x - 1)) ELSE 0

\* the '-' of -WxH before the extension at d, after h digits; 0 when none
SizeHeight(filename, d, h) == IF d > 0 /\ h > 0 THEN SizeX(filename, d - 1 - h) ELSE 0

\* where -\d+x\d+(\.[a-z]+)$ matches, the extension being at d; 0 when not
SizeSuffixStart(filename, d) == SizeHeight(filename, d, DigitsBefore(filename, d - 1))

\* the match from m to the end replaced by its group, the extension at d
StripAt(filename, d, m) ==
  IF m > 0 THEN SubSeq(filename, 1, m - 1) \o SubSeq(filename, d, Len(filename))
  ELSE filename

StripSizeSuffixKeepsAll(filename) == filename

\* filename.replace(/-\d+x\d+(\.[a-z]+)$/i, '$1')
StripSizeSuffix(filename) ==
  StripAt(filename, FinalExtension(filename),
          SizeSuffixStart(filename, FinalExtension(filename)))

AssetPath(filename) == <<"/","a","s","s","e","t","s","/">> \o StripSizeSuffix(filename)

\* `if (filename) return ...` of the rimalweb.net branch
FixRimalweb(url, filename) == IF filename # Null THEN AssetPath(filename) ELSE url

\* fixAssetUrl after its first branch, which found the file name `first`
FixWith(url, first) ==
  IF first # Null THEN AssetPath(first)
  ELSE IF Includes(url, <<"r","i","m","a","l","w","e","b",".","n","e","t">>) \/ Includes(url, <<"R","i","m","a","l","w","e","b",".","n","e","t">>)
       THEN FixRimalweb(url, GetAssetFilename(ReplaceAllCI(url, <<"r","i","m","a","l","w","e","b",".","n","e","t">>,
                                                          <<"a","l","l","u","r","e","d","i","g","i","t","a","l",".","n","e","t">>)))
       ELSE url

FixAssetUrl(url) ==
  IF url = << >> \/ StartsWith(url, <<"d","a","t","a",":">>) \/ StartsWith(url, <<"/","a","s","s","e","t","s","/">>) THEN url
  ELSE FixWith(url, IF Includes(url, <<"a","l","l","u","r","e","d","i","g","i","t","a","l",".","n","e","t">>) \/ StartsWith(url, <<"h","t","t","p">>)
                    THEN GetAssetFilename(url) ELSE Null)

\* the fixAssetUrl of the second renderer of part_008, after its guard:
\* urlToProcess is the URL with rimalweb.net converted
FixConverted(url, urlToProcess) ==
  FixRimalweb(url, IF Includes(urlToProcess, <<"a","l","l","u","r","e","d","i","g","i","t","a","l",".","n","e","t">>)
                      \/ StartsWith(urlToProcess, <<"h","t","t","p">>)
                   THEN GetAssetFilename(urlToProcess) ELSE Null)

\* fixAssetUrl that always converts rimalweb.net (any case) first
FixAssetUrlRimalwebFirst(url) ==
  IF url = << >> \/ StartsWith(url, <<"d","a","t","a",":">>) \/ StartsWith(url, <<"/","a","s","s","e","t","s","/">>) THEN url
  ELSE FixConverted(url, IF IncludesCI(url, <<"r","i","m","a","l","w","e","b",".","n","e","t">>)
                         THEN ReplaceAllCI(url, <<"r","i","m","a","l","w","e","b",".","n","e","t">>, <<"a","l","l","u","r","e","d","i","g","i","t","a","l",".","n","e","t">>)
                         ELSE url)

(***************************************************************************)
(* SpecUrl: getAssetFilename and fixAssetUrl applied to the URLs of a page *)
(***************************************************************************)

\* the greatest number of directories of a URL's path
MaxDirs == 2

DirNames == {<<"w","p","-","c","o","n","t","e","n","t">>, <<"u","p","l","o","a","d","s">>, <<"l","i","t","e","s","p","e","e","d">>}

Schemes == {<<"h","t","t","p","s",":","/","/">>, <<"h","t","t","p",":","/","/">>, << >>}

Hosts == {<<"a","l","l","u","r","e","d","i","g","i","t","a","l",".","n","e","t">>, <<"r","i","m","a","l","w","e","b",".","n","e","t">>}

Stems == {<<"l","o","g","o">>}

Sizes == {<< >>, <<"-","3","0","0","x","2","0","0">>}

Exts == {<< >>, <<".","p","n","g">>}

Tails == {<< >>, <<"?","v","e","r","=","6",".","4">>, <<"#","t","o","p">>}

DirLists == UNION {[1..n -> DirNames] : n \in 0..MaxDirs}

\* the last segment of a path: a file name, or empty after a trailing '/'
Files == {<< >>} \cup {[stem |-> s, size |-> z, ext |-> e] : s \in Stems, z \in Sizes, e \in Exts}

FileName(f) == IF f = << >> THEN << >> ELSE f.stem \o f.size \o f.ext

\* a URL of the page by its components; relative URLs name no host
Requests ==
  {[kind |-> "url", scheme |-> sc, www |-> w, host |-> h, dirs |-> d, file |-> f, tail |-> t] :
     sc \in Schemes \ {<< >>}, w \in BOOLEAN, h \in Hosts, d \in DirLists, f \in Files, t \in Tails}
  \cup
  {[kind |-> "url", scheme |-> << >>, www |-> FALSE, host |-> BaseHost, dirs |-> d, file |-> f, tail |-> t] :
     d \in DirLists, f \in Files, t \in Tails}

\* URLs that are not of that shape, as written: name is the file name the
\* host-and-path rule gives, fix the local URL (Null: not an absolute http(s)
\* URL with a path, the rule names no result)
RawRequests ==
  {[kind |-> "raw", text |-> << >>, name |-> Null, fix |-> << >>],
   [kind |-> "raw", text |-> <<"d","a","t","a",":","i","m","a","g","e","/","p","n","g",";","b","a","s","e","6","4",",","A","A","A","A">>,
    name |-> <<"i","m","a","g","e","_","p","n","g",";","b","a","s","e","6","4",",","A","A","A","A">>, fix |-> <<"d","a","t","a",":","i","m","a","g","e","/","p","n","g",";","b","a","s","e","6","4",",","A","A","A","A">>],
   [kind |-> "raw", text |-> <<"/","a","s","s","e","t","s","/","a","l","l","u","r","e","d","i","g","i","t","a","l",".","n","e","t","_","u","p","l","o","a","d","s","_","l","o","g","o","-","3","0","0","x","2","0","0",".","p","n","g">>,
    name |-> <<"a","l","l","u","r","e","d","i","g","i","t","a","l",".","n","e","t","_","a","s","s","e","t","s","_","a","l","l","u","r","e","d","i","g","i","t","a","l",".","n","e","t","_","u","p","l","o","a","d","s","_","l","o","g","o","-","3","0","0","x","2","0","0",".","p","n","g">>,
    fix |-> <<"/","a","s","s","e","t","s","/","a","l","l","u","r","e","d","i","g","i","t","a","l",".","n","e","t","_","u","p","l","o","a","d","s","_","l","o","g","o","-","3","0","0","x","2","0","0",".","p","n","g">>],
   [kind |-> "raw", text |-> <<"h","t","t","p","s",":","/","/">>, name |-> Null, fix |-> <<"h","t","t","p","s",":","/","/">>],
   [kind |-> "raw", text |-> <<"h","t","t","p","s",":","/","/","a","l","l","u","r","e","d","i","g","i","t","a","l",".","n","e","t">>, name |-> Null,
    fix |-> <<"h","t","t","p","s",":","/","/","a","l","l","u","r","e","d","i","g","i","t","a","l",".","n","e","t">>],
   [kind |-> "raw", text |-> <<"h","t","t","p","s",":","/","/","R","i","m","a","l","w","e","b",".","n","e","t","/">>, name |-> Null,
    fix |-> <<"h","t","t","p","s",":","/","/","R","i","m","a","l","w","e","b",".","n","e","t","/">>],
   [kind |-> "raw", text |-> <<"h","t","t","p","s",":","/","/","A","l","l","u","r","e","D","i","g","i","t","a","l",".","n","e","t","/","w","p","-","c","o","n","t","e","n","t","/","u","p","l","o","a","d","s","/","l","o","g","o","-","1","0","2","4","X","7","6","8",".","P","N","G">>,
    name |-> <<"a","l","l","u","r","e","d","i","g","i","t","a","l",".","n","e","t","_","w","p","-","c","o","n","t","e","n","t","_","u","p","l","o","a","d","s","_","l","o","g","o","-","1","0","2","4","X","7","6","8",".","P","N","G">>,
    fix |-> <<"/","a","s","s","e","t","s","/","a","l","l","u","r","e","d","i","g","i","t","a","l",".","n","e","t","_","w","p","-","c","o","n","t","e","n","t","_","u","p","l","o","a","d","s","_","l","o","g","o",".","P","N","G">>],
   [kind |-> "raw", text |-> <<"h","t","t","p","s",":","/","/","c","d","n",".","e","x","a","m","p","l","e",".","c","o","m","/","a",".","b","/","f","o","n","t","-","2","x",".","w","o","f","f","?","x","=","1","#","y">>,
    name |-> <<"c","d","n",".","e","x","a","m","p","l","e",".","c","o","m","_","a",".","b","_","f","o","n","t","-","2","x",".","w","o","f","f">>,
    fix |-> <<"/","a","s","s","e","t","s","/","c","d","n",".","e","x","a","m","p","l","e",".","c","o","m","_","a",".","b","_","f","o","n","t","-","2","x",".","w","o","f","f">>],
   [kind |-> "raw", text |-> <<"/","/","w","w","w",".","a","l","l","u","r","e","d","i","g","i","t","a","l",".","n","e","t","/","w","p","-","c","o","n","t","e","n","t","/","l","i","t","e","s","p","e","e","d","/","c","s","s","/","a",".","c","s","s","?","v","e","r","=","1">>,
    name |-> <<"a","l","l","u","r","e","d","i","g","i","t","a","l",".","n","e","t","_","w","p","-","c","o","n","t","e","n","t","_","l","i","t","e","s","p","e","e","d","_","c","s","s","_","a",".","c","s","s">>, fix |-> Null],
   [kind |-> "raw", text |-> <<"m","a","i","l","t","o",":","i","n","f","o","@","a","l","l","u","r","e","d","i","g","i","t","a","l",".","n","e","t">>,
    name |-> <<"i","n","f","o","@","a","l","l","u","r","e","d","i","g","i","t","a","l",".","n","e","t">>, fix |-> Null]}

\* the segments of the path of a request
PathOf(r) == r.dirs \o <<FileName(r.file)>>

\* the URL as the page writes it
Render(r) ==
  IF r.kind = "raw" THEN r.text
  ELSE r.scheme
       \o (IF r.scheme = << >> THEN << >>
           ELSE (IF r.www THEN <<"w","w","w",".">> ELSE << >>) \o r.host)
       \o <<"/">> \o Join(PathOf(r), <<"/">>) \o r.tail

InitUrl ==
  /\ uReq \in Requests \cup RawRequests
  /\ uUrl = Render(uReq)
  /\ uFilename = Null
  /\ uFixed = << >>
  /\ uFirst = << >>
  /\ uOriginal = << >>
  /\ uFixedOriginal = << >>
  /\ uFirstOriginal = << >>
  /\ upc = "start"
  /\ IdleLife
  /\ IdleStyle
  /\ IdleBody
  /\ IdleFixups
  /\ IdleLogo
  /\ IdleSettings
  /\ IdleRoute

CallGetAssetFilename ==
  /\ upc = "start"
  /\ uFilename' = GetAssetFilename(uUrl)
  /\ upc' = "named"
  /\ UNCHANGED <<uReq, uUrl, uFixed, uFirst, uOriginal, uFixedOriginal, uFirstOriginal>>
  /\ UNCHANGED notUrl

CallFixAssetUrl ==
  /\ upc = "named"
  /\ uFixed' = FixAssetUrl(uUrl)
  /\ upc' = "fixed"
  /\ UNCHANGED <<uReq, uUrl, uFilename, uFirst, uOriginal, uFixedOriginal, uFirstOriginal>>
  /\ UNCHANGED notUrl

\* the fixAssetUrl of the second renderer of part_008 on the same URL
CallFixAssetUrlRimalwebFirst ==
  /\ upc = "fixed"
  /\ uFirst' = FixAssetUrlRimalwebFirst(uUrl)
  /\ upc' = "first"
  /\ UNCHANGED <<uReq, uUrl, uFilename, uFixed, uOriginal, uFixedOriginal, uFirstOriginal>>
  /\ UNCHANGED notUrl

\* both functions on the URL as the scraped page had it, on alluredigital.net
CallOnOriginal ==
  /\ upc = "first"
  /\ uOriginal' = ReplaceAll(uUrl, <<"r","i","m","a","l","w","e","b",".","n","e","t">>, <<"a","l","l","u","r","e","d","i","g","i","t","a","l",".","n","e","t">>)
  /\ uFixedOriginal' = FixAssetUrl(uOriginal')
  /\ uFirstOriginal' = FixAssetUrlRimalwebFirst(uOriginal')
  /\ upc' = "original"
  /\ UNCHANGED <<uReq, uUrl, uFilename, uFixed, uFirst>>
  /\ UNCHANGED notUrl

NextUrl ==
  \/ CallGetAssetFilename
  \/ CallFixAssetUrl
  \/ CallFixAssetUrlRimalwebFirst
  \/ CallOnOriginal

(***************************************************************************)
(* Claims on getAssetFilename and fixAssetUrl                              *)
(***************************************************************************)

\* the host a request names: relative URLs resolve against alluredigital.net
HostOf(r) == IF r.scheme = << >> THEN BaseHost ELSE r.host

HasSegment(r) == \E k \in 1..Len(PathOf(r)) : PathOf(r)[k] # << >>

\* host and path only: the host without 'www.', then the path with '_' for '/'
ExpectedFilename(r) ==
  IF r.kind = "raw" THEN r.name
  ELSE IF HasSegment(r) THEN HostOf(r) \o <<"_">> \o Join(PathOf(r), <<"_">>)
       ELSE Null

\* the file name of a request without its size suffix before the extension
UnsizedFile(r) ==
  IF r.file = << >> THEN << >>
  ELSE IF r.file.ext = << >> THEN FileName(r.file)
  ELSE r.file.stem \o r.file.ext

\* the local URL of a request; Null where the rule names no result
ExpectedFixed(r) ==
  IF r.kind = "raw" THEN r.fix
  ELSE IF ~HasSegment(r) THEN Render(r)
  ELSE IF r.scheme = << >> THEN Null
  ELSE <<"/","a","s","s","e","t","s","/">> \o HostOf(r) \o <<"_">> \o Join(r.dirs \o <<UnsizedFile(r)>>, <<"_">>)

\* C5: getAssetFilename(url) is the host (without 'www.') followed by the
\* path with every '/' replaced by '_', in the litespeed, the uploads and
\* the default branch alike; it holds no query string and no fragment; it is
\* null when the path has no non-empty segment or the URL does not parse
C5_FilenameFromHostAndPath ==
  upc # "start" =>
     /\ uFilename = ExpectedFilename(uReq)
     /\ uReq.kind = "url" /\ uFilename # Null =>
           ~Includes(uFilename, <<"?">>) /\ ~Includes(uFilename, <<"#">>)

C5_Witness ==
  /\ upc = "named"
  /\ uReq.kind = "url"
  /\ uReq.www
  /\ uReq.dirs = <<<<"w","p","-","c","o","n","t","e","n","t">>, <<"l","i","t","e","s","p","e","e","d">>>>
  /\ uReq.tail = <<"?","v","e","r","=","6",".","4">>
  /\ uFilename = <<"a","l","l","u","r","e","d","i","g","i","t","a","l",".","n","e","t","_","w","p","-","c","o","n","t","e","n","t","_","l","i","t","e","s","p","e","e","d","_","l","o","g","o",".","p","n","g">>

C11_RimalwebLikeAllure ==
  upc = "original" /\ Includes(uUrl, <<"r","i","m","a","l","w","e","b",".","n","e","t">>) =>
     /\ uFixed = uFixedOriginal
     /\ uFirst = uFirstOriginal

(***************************************************************************)
(* Spec: the mount effect of the base renderer.  A run of the effect is    *)
(* one synchronous task: its steps follow one another with no callback in  *)
(* between; load and error events and timers run between effect runs.      *)
(***************************************************************************)

\* the greatest number of effect runs (renders with a new html)
MaxRuns == 2

\* setTimeout delays of the readiness callbacks
ReadyDelayScripts == 300

ReadyDelayNoScripts == 100

CssLocal   == <<"h","t","t","p","s",":","/","/","a","l","l","u","r","e","d","i","g","i","t","a","l",".","n","e","t","/","a",".","c","s","s","?","v","e","r","=","1">>
CssFont    == <<"h","t","t","p","s",":","/","/","f","o","n","t","s",".","g","o","o","g","l","e","a","p","i","s",".","c","o","m","/","c","s","s">>
JsLocal    == <<"h","t","t","p","s",":","/","/","a","l","l","u","r","e","d","i","g","i","t","a","l",".","n","e","t","/","a",".","j","s">>
JsRelative == <<"/","b",".","j","s">>
JsTracker  == <<"h","t","t","p","s",":","/","/","w","w","w",".","g","o","o","g","l","e","t","a","g","m","a","n","a","g","e","r",".","c","o","m","/","g","t","a","g","/","j","s">>
JsNoFile   == <<"h","t","t","p","s",":","/","/","a","l","l","u","r","e","d","i","g","i","t","a","l",".","n","e","t">>
JsCdn      == <<"/","/","c","d","n",".","e","x","a","m","p","l","e",".","c","o","m","/","l","i","b",".","j","s">>
InlineInit == <<"v","a","r"," ","a","=","1">>
InlineGtag == <<"g","t","a","g","(","'","j","s","'",")">>
StyleText  == <<"p","{","m","a","r","g","i","n",":","0","}">>
TitleSeo   == <<"S","E","O"," ","S","e","r","v","i","c","e","s"," ","|"," ","A","l","l","u","r","e"," ","D","i","g","i","t","a","l">>
TitleBlog  == <<"A","l","l","u","r","e","D","i","g","i","t","a","l"," ","B","l","o","g">>

\* html === ''
EmptyHtml ==
  [title |-> Null, links |-> {}, styles |-> {}, metas |-> {}, scripts |-> {}, inline |-> {},
   empty |-> TRUE]

\* a page by the text of its title (Null: the head has none), its stylesheet
\* links, styles, named meta tags, external and inline scripts
Page(t, l, st, m, s, i) ==
  [title |-> t, links |-> l, styles |-> st, metas |-> m, scripts |-> s, inline |-> i,
   empty |-> FALSE]

\* the scraped pages the routes hand to the renderer
Pages ==
  {Page(TitleSeo, {CssLocal}, {}, {<<"v","i","e","w","p","o","r","t">>}, {}, {}),
   Page(Null, {CssLocal, CssFont}, {StyleText}, {<<"d","e","s","c","r","i","p","t","i","o","n">>}, {JsLocal}, {InlineInit}),
   Page(TitleBlog, {CssLocal}, {}, {}, {JsLocal, JsRelative, JsTracker}, {InlineGtag}),
   Page(TitleSeo, {CssFont}, {StyleText}, {}, {JsTracker, JsNoFile}, {}),
   Page(Null, {}, {}, {}, {JsCdn}, {})}

\* what the application layout has rendered into document.head
LayoutTitle == <<"A","l","l","u","r","e"," ","D","i","g","i","t","a","l"," ","-"," ","C","o","m","p","l","e","t","e"," ","R","e","p","l","i","c","a">>

LayoutHead ==
  {[tag |-> "title", key |-> LayoutTitle, href |-> << >>, run |-> 0],
   [tag |-> "meta", key |-> <<"d","e","s","c","r","i","p","t","i","o","n">>, href |-> << >>, run |-> 0]}

FontHosts == {<<"f","o","n","t","s",".","g","o","o","g","l","e","a","p","i","s",".","c","o","m">>, <<"g","o","o","g","l","e","a","p","i","s",".","c","o","m">>, <<"g","s","t","a","t","i","c",".","c","o","m">>}

\* the href the injected clone of a stylesheet link gets, Null when skipped
LinkTarget(href) ==
  IF \E h \in FontHosts : Includes(href, h) THEN Null
  ELSE IF Includes(href, <<"a","l","l","u","r","e","d","i","g","i","t","a","l",".","n","e","t">>) \/ StartsWith(href, <<"h","t","t","p">>)
       THEN LET name == GetAssetFilename(href) IN
            IF name # Null THEN <<"/","a","s","s","e","t","s","/">> \o name ELSE Null
       ELSE href

\* the stylesheet links of the pages, each with the href of its clone
LinkTargetOf == [h \in UNION {p.links : p \in Pages} |-> LinkTarget(h)]

\* s.substring(0, 50)
Substring50(s) == SubSeq(s, 1, IF Len(s) < 50 THEN Len(s) ELSE 50)

\* head.querySelectorAll('link[rel="stylesheet"], style').forEach
InjectedStyles(p, loaded, r) ==
  {[tag |-> "link", key |-> h, href |-> LinkTargetOf[h], run |-> r] :
      h \in {x \in p.links : x \notin loaded /\ LinkTargetOf[x] # Null}}
  \cup
  {[tag |-> "style", key |-> Substring50(s), href |-> << >>, run |-> r] :
      s \in {x \in p.styles : Substring50(x) \notin loaded}}

\* head.querySelectorAll('meta, title').forEach: only when none exists yet
InjectedMetas(p, head, r) ==
  {[tag |-> "meta", key |-> n, href |-> << >>, run |-> r] :
      n \in {x \in p.metas : ~\E e \in head : e.tag = "meta" /\ e.key = x}}

\* the three replace calls on the text of the cloned title
RebrandHeadTitle(text) ==
  ReplaceAllCI(ReplaceAllCI(ReplaceAllCI(text, <<"A","l","l","u","r","e"," ","D","i","g","i","t","a","l">>, <<"R","i","m","a","l","w","e","b">>),
                            <<"A","l","l","u","r","e","D","i","g","i","t","a","l">>, <<"R","i","m","a","l","w","e","b">>),
               <<"a","l","l","u","r","e"," ","d","i","g","i","t","a","l">>, <<"R","i","m","a","l","w","e","b">>)

\* the title of the page is cloned only when document.querySelector('title')
\* finds none; the text of a title element is its key
InjectedTitle(p, head, r) ==
  IF p.title # Null /\ ~\E e \in head : e.tag = "title"
  THEN {[tag |-> "title", key |-> RebrandHeadTitle(p.title), href |-> << >>, run |-> r]}
  ELSE {}

ExternalApis ==
  {<<"m","a","p","s",".","g","o","o","g","l","e","a","p","i","s",".","c","o","m">>, <<"g","o","o","g","l","e","a","p","i","s",".","c","o","m">>, <<"g","s","t","a","t","i","c",".","c","o","m">>, <<"g","o","o","g","l","e","t","a","g","m","a","n","a","g","e","r",".","c","o","m">>,
   <<"g","o","o","g","l","e","-","a","n","a","l","y","t","i","c","s",".","c","o","m">>, <<"f","a","c","e","b","o","o","k",".","n","e","t">>, <<"c","l","a","r","i","t","y",".","m","s">>, <<"c","l","e","a","n","t","a","l","k",".","o","r","g">>,
   <<"p","e","a","r","l","d","i","v","e","r",".","i","o">>, <<"u","s","b","r","o","w","s","e","r","s","p","e","e","d",".","c","o","m">>, <<"r","e","c","a","p","t","c","h","a">>}

\* the src of the script element created for a page script, Null when skipped
ScriptTarget(src) ==
  IF \E h \in ExternalApis : Includes(src, h) THEN Null
  ELSE IF Includes(src, <<"a","l","l","u","r","e","d","i","g","i","t","a","l",".","n","e","t">>) \/ StartsWith(src, <<"h","t","t","p">>)
       THEN LET name == GetAssetFilename(src) IN
            IF name # Null THEN <<"/","a","s","s","e","t","s","/">> \o name ELSE Null
       ELSE src

AllScripts == UNION {p.scripts : p \in Pages}

\* the external scripts of the pages, each with the src of its new element
ScriptTargetOf == [s \in AllScripts |-> ScriptTarget(s)]

TrackingWords ==
  {<<"g","t","a","g">>, <<"f","b","q">>, <<"c","l","a","r","i","t","y">>, <<"d","a","t","a","L","a","y","e","r">>, <<"g","o","o","g","l","e">>, <<"m","a","p","s">>, <<"r","e","c","a","p","t","c","h","a">>}

AppendedScriptsAgain(p, loaded) == {s \in p.scripts : ScriptTargetOf[s] # Null}

\* the external scripts a run appends, each with a load promise
AppendedScripts(p, loaded) ==
  {s \in p.scripts : s \notin loaded /\ ScriptTargetOf[s] # Null}

\* the inline scripts a run appends
AppendedInline(p, loaded) ==
  {t \in p.inline : (~\E w \in TrackingWords : Includes(t, w)) /\ Substring50(t) \notin loaded}

ScriptsBeforeInsert == <<"head", "body", "scripts", "insert", "fixups">>

\* the steps of the effect, in the order of its statements
EffectOrder == <<"head", "body", "insert", "fixups", "scripts">>

\* where the effect stands after the step ph; "idle" after its last step
NextPhase(ph) ==
  IF \E k \in 1..(Len(EffectOrder) - 1) : EffectOrder[k] = ph
  THEN EffectOrder[1 + CHOOSE k \in 1..(Len(EffectOrder) - 1) : EffectOrder[k] = ph]
  ELSE "idle"

ReadinessForgotten(r) == {}

\* } else { setTimeout(() => { setIsLoading(false) }, 100) }
ReadinessWithoutScripts(r) == {[run |-> r, ms |-> ReadyDelayNoScripts]}

SettlesOnLoadOnly(ev) == ev = "load"

\* newScript.onload = () => resolve(); newScript.onerror = () => resolve()
SettlesPromise(ev) == ev \in {"load", "error"}

Init ==
  /\ html \in Pages \cup {EmptyHtml}
  /\ effectDue = TRUE
  /\ phase = "idle"
  /\ run = 0
  /\ isLoading = TRUE
  /\ stylesLoadedRef = {}
  /\ scriptsLoadedRef = {}
  /\ docHead = LayoutHead
  /\ cleanedRun = 0
  /\ containerRun = 0
  /\ fixupsRun = 0
  /\ scriptStatus = << >>
  /\ waiting = << >>
  /\ timers = {}
  /\ revealed = {}
  /\ IdleStyle
  /\ IdleUrl
  /\ IdleBody
  /\ IdleFixups
  /\ IdleLogo
  /\ IdleSettings
  /\ IdleRoute

\* the parent renders the component with another html
SetHtml(p) ==
  /\ phase = "idle"
  /\ run < MaxRuns
  /\ ~effectDue
  /\ p # html
  /\ html' = p
  /\ effectDue' = TRUE
  /\ UNCHANGED <<phase, run, isLoading, stylesLoadedRef, scriptsLoadedRef, docHead, cleanedRun,
                 containerRun, fixupsRun, scriptStatus, waiting, timers, revealed>>
  /\ UNCHANGED notLife

\* useEffect(() => { if (!containerRef.current || !html) return; setIsLoading(true) ...
EffectStart ==
  /\ phase = "idle"
  /\ effectDue
  /\ effectDue' = FALSE
  /\ IF html.empty
     THEN UNCHANGED <<phase, run, isLoading>>
     ELSE /\ phase' = EffectOrder[1]
          /\ run' = run + 1
          /\ isLoading' = TRUE
  /\ UNCHANGED <<html, stylesLoadedRef, scriptsLoadedRef, docHead, cleanedRun, containerRun,
                 fixupsRun, scriptStatus, waiting, timers, revealed>>
  /\ UNCHANGED notLife

\* (a) head content: stylesheets and styles, then meta tags
InjectHead ==
  /\ phase = "head"
  /\ LET styles == InjectedStyles(html, stylesLoadedRef, run)
         metas  == InjectedMetas(html, docHead, run) \cup InjectedTitle(html, docHead, run)
     IN  /\ docHead' = docHead \cup styles \cup metas
         /\ stylesLoadedRef' = stylesLoadedRef \cup {e.key : e \in styles}
  /\ phase' = NextPhase(phase)
  /\ UNCHANGED <<html, effectDue, run, isLoading, scriptsLoadedRef, cleanedRun, containerRun,
                 fixupsRun, scriptStatus, waiting, timers, revealed>>
  /\ UNCHANGED notLife

\* (b) the rewrites of the body, up to cleanedHtml
RewriteBody ==
  /\ phase = "body"
  /\ cleanedRun' = run
  /\ phase' = NextPhase(phase)
  /\ UNCHANGED <<html, effectDue, run, isLoading, stylesLoadedRef, scriptsLoadedRef, docHead,
                 containerRun, fixupsRun, scriptStatus, waiting, timers, revealed>>
  /\ UNCHANGED notLife

\* (c) containerRef.current.innerHTML = cleanedHtml
InsertContent ==
  /\ phase = "insert"
  /\ containerRun' = cleanedRun
  /\ phase' = NextPhase(phase)
  /\ UNCHANGED <<html, effectDue, run, isLoading, stylesLoadedRef, scriptsLoadedRef, docHead,
                 cleanedRun, fixupsRun, scriptStatus, waiting, timers, revealed>>
  /\ UNCHANGED notLife

\* (d) the error handlers and probes of the inserted images
InstallFixups ==
  /\ phase = "fixups"
  /\ fixupsRun' = run
  /\ phase' = NextPhase(phase)
  /\ UNCHANGED <<html, effectDue, run, isLoading, stylesLoadedRef, scriptsLoadedRef, docHead,
                 cleanedRun, containerRun, scriptStatus, waiting, timers, revealed>>
  /\ UNCHANGED notLife

\* (e) allScripts.forEach, then Promise.all(scriptPromises) or the timer
InjectScripts ==
  /\ phase = "scripts"
  /\ LET ext == AppendedScripts(html, scriptsLoadedRef)
         inl == AppendedInline(html, scriptsLoadedRef \cup ext)
     IN  /\ docHead' = docHead
              \cup {[tag |-> "script", key |-> s, href |-> ScriptTargetOf[s], run |-> run] : s \in ext}
              \cup {[tag |-> "script", key |-> Substring50(t), href |-> << >>, run |-> run] : t \in inl}
         /\ scriptsLoadedRef' = scriptsLoadedRef \cup ext \cup {Substring50(t) : t \in inl}
         /\ scriptStatus' = [s \in DOMAIN scriptStatus \cup ext |->
                               IF s \in ext THEN "pending" ELSE scriptStatus[s]]
         /\ waiting' = [r \in DOMAIN waiting \cup {run} |-> IF r = run THEN ext ELSE waiting[r]]
         /\ timers' = IF ext = {} THEN timers \cup ReadinessWithoutScripts(run)
                      ELSE timers
  /\ phase' = NextPhase(phase)
  /\ UNCHANGED <<html, effectDue, run, isLoading, stylesLoadedRef, cleanedRun, containerRun,
                 fixupsRun, revealed>>
  /\ UNCHANGED notLife

\* an appended script fires load or error; the promise callbacks run in the
\* same task: Promise.all(...).then schedules the readiness timer
ScriptEvent(s, ev) ==
  /\ phase = "idle"
  /\ s \in DOMAIN scriptStatus
  /\ scriptStatus[s] = "pending"
  /\ scriptStatus' = [scriptStatus EXCEPT ![s] = ev]
  /\ LET settled == IF SettlesPromise(ev) THEN {s} ELSE {}
         done    == {r \in DOMAIN waiting : waiting[r] # {} /\ waiting[r] \ settled = {}}
     IN  /\ waiting' = [r \in DOMAIN waiting |-> waiting[r] \ settled]
         /\ timers' = timers \cup {[run |-> r, ms |-> ReadyDelayScripts] : r \in done}
  /\ UNCHANGED <<html, effectDue, phase, run, isLoading, stylesLoadedRef, scriptsLoadedRef,
                 docHead, cleanedRun, containerRun, fixupsRun, revealed>>
  /\ UNCHANGED notLife

ScriptLoad(s) == ScriptEvent(s, "load")

ScriptError(s) == ScriptEvent(s, "error")

\* setTimeout(() => { setIsLoading(false) }, ms)
TimerFire(t) ==
  /\ phase = "idle"
  /\ t \in timers
  /\ timers' = timers \ {t}
  /\ isLoading' = FALSE
  /\ revealed' = revealed \cup {t.run}
  /\ UNCHANGED <<html, effectDue, phase, run, stylesLoadedRef, scriptsLoadedRef, docHead,
                 cleanedRun, containerRun, fixupsRun, scriptStatus, waiting>>
  /\ UNCHANGED notLife

AllTimers == [run : 1..(MaxRuns + 1), ms : {ReadyDelayScripts, ReadyDelayNoScripts}]

Effect == EffectStart \/ InjectHead \/ RewriteBody \/ InsertContent \/ InstallFixups \/ InjectScripts

Next ==
  \/ \E p \in Pages \cup {EmptyHtml} : SetHtml(p)
  \/ Effect
  \/ \E s \in AllScripts : ScriptLoad(s) \/ ScriptError(s)
  \/ \E t \in AllTimers : TimerFire(t)

(***************************************************************************)
(* Claims on the order of the effect and on readiness                      *)
(***************************************************************************)

\* the head elements a page has the effect inject are in document.head
HeadDone(p) ==
  /\ \A h \in p.links : LinkTarget(h) # Null =>
        \E e \in docHead : e.tag = "link" /\ e.key = h /\ e.href = LinkTarget(h)
  /\ \A s \in p.styles : \E e \in docHead : e.tag = "style" /\ e.key = Substring50(s)
  /\ \A n \in p.metas : \E e \in docHead : e.tag = "meta" /\ e.key = n

\* the scripts of a page that a run has appended to the document
ScriptsOf(r) == {e \in docHead : e.tag = "script" /\ e.run = r}

\* the external ones: those that fire load or error
ExternalScriptsOf(r) == {e \in ScriptsOf(r) : e.href # << >>}

\* the runs whose readiness callback is scheduled or has run
Signalled == revealed \cup {t.run : t \in timers}

C3_ReadinessEventually ==
  \A r \in 1..MaxRuns : (run = r /\ phase = EffectOrder[1]) ~> (r \in revealed /\ ~isLoading)

C3_Witness ==
  /\ revealed = {1, 2}
  /\ ~isLoading
  /\ ExternalScriptsOf(1) # {}
  /\ ScriptsOf(2) = {}

\* C4: the readiness callback of a run that injected external scripts is
\* scheduled only after each of them has fired load or error, and it is
\* scheduled once each has, whether it loaded or failed
C4_ErrorCountsAsFinished ==
  \A r \in DOMAIN waiting :
     ExternalScriptsOf(r) # {} =>
        (r \in Signalled <=> \A e \in ExternalScriptsOf(r) : scriptStatus[e.key] # "pending")

C4_Witness ==
  \E r \in revealed :
     /\ \E e \in ExternalScriptsOf(r) : scriptStatus[e.key] = "error"
     /\ \E e \in ExternalScriptsOf(r) : scriptStatus[e.key] = "load"

\* the src is fetched from another origin than the page: it names a scheme
\* and a host, or a host after '//'
ThirdParty(src) == SchemeEnd(src) # 0 \/ StartsWith(src, <<"/","/">>)

\* C12: every external script element in document.head has a src that is a
\* local path, '/assets/<filename>' or a relative URL of the scraped page,
\* and none is fetched from another origin; a script whose src names one of
\* the listed tracker and API hosts is not appended
C12_OnlyLocalScripts ==
  \A e \in docHead : e.tag = "script" /\ e.href # << >> =>
     /\ StartsWith(e.href, <<"/","a","s","s","e","t","s","/">>) \/ ~ThirdParty(e.href)
     /\ ~\E h \in ExternalApis : Includes(e.key, h)

\* the text of the title document.head shows
TitlesOf(head) == {e.key : e \in {x \in head : x.tag = "title"}}

\* C13: after the effect has run on a page whose title holds 'Allure
\* Digital', the title element of document.head shows the rebranded text,
\* with 'Rimalweb' and without 'Allure Digital', also when the layout had
\* rendered its own title before the effect ran
C13_TitleRebranded ==
  (phase = "idle" /\ ~effectDue /\ run > 0 /\ html.title # Null
     /\ Includes(html.title, <<"A","l","l","u","r","e"," ","D","i","g","i","t","a","l">>)) =>
        /\ TitlesOf(docHead) # {}
        /\ \A t \in TitlesOf(docHead) :
              Includes(t, <<"R","i","m","a","l","w","e","b">>) /\ ~Includes(t, <<"A","l","l","u","r","e"," ","D","i","g","i","t","a","l">>)

\* the elements of document.head injected for the href, src or text id
InjectedFor(tags, id) == {e \in docHead : e.tag \in tags /\ e.key = id /\ e.run > 0}

\* C14: over the runs of the effect of one component instance, each
\* stylesheet href and each external script src is appended to document.head
\* at most once, and stylesLoadedRef and scriptsLoadedRef hold an id only
\* if its element was appended
C14_InjectedOnce ==
  /\ \A e \in docHead : e.run > 0 /\ e.tag \in {"link", "script"} =>
        Cardinality(InjectedFor({e.tag}, e.key)) = 1
  /\ \A id \in stylesLoadedRef : InjectedFor({"link", "style"}, id) # {}
  /\ \A id \in scriptsLoadedRef : InjectedFor({"script"}, id) # {}

C14_Witness ==
  /\ phase = "idle"
  /\ run = 2
  /\ CssLocal \in html.links
  /\ JsLocal \in html.scripts
  /\ \E e \in InjectedFor({"link"}, CssLocal) : e.run = 1
  /\ \E e \in InjectedFor({"script"}, JsLocal) : e.run = 1
  /\ \E e \in docHead : e.run = 2

\* C20: no stale readiness: once the effect of a run has set isLoading to
\* true, isLoading is false only after a readiness timer of that run has
\* fired; the timers and promise callbacks of an earlier run never hide the
\* loading overlay of a later run
C20_NoStaleReadiness == ~isLoading => run \in revealed

(***************************************************************************)
(* SpecStyle: the renderer that reveals the page once its stylesheets have *)
(* loaded.  Its effect is one synchronous task; the events of the links,   *)
(* the timers and the animation frames run after it, in any order.         *)
(***************************************************************************)

\* the greatest number of effect runs
MaxStyleRuns == 2

\* setTimeout delays of the three reveal paths
RevealDelayStyles == 150

RevealDelayScripts == 100

RevealDelayNoAssets == 200

CssTheme == <<"h","t","t","p","s",":","/","/","a","l","l","u","r","e","d","i","g","i","t","a","l",".","n","e","t","/","b",".","c","s","s">>

StylePages ==
  {Page(Null, {CssLocal}, {}, {}, {}, {}),
   Page(Null, {CssLocal, CssTheme, CssFont}, {}, {}, {JsLocal}, {}),
   Page(Null, {CssFont}, {}, {}, {JsLocal}, {}),
   Page(Null, {CssFont}, {}, {}, {JsTracker}, {})}

\* new Promise((resolve) => { let resolved = false ... })
NewLink(r) == [run |-> r, resolved |-> FALSE, fired |-> {}, pend |-> 0, resolves |-> 0]

Fired(link, ev) == [link EXCEPT !.fired = @ \cup {ev}]

ResolveEveryTime(link) == [link EXCEPT !.resolved = TRUE, !.pend = @ + 1]

\* const resolveOnce = () => { if (!resolved) { resolved = true;
\*   setTimeout(() => resolve(), 100) } }
ResolveOnce(link) ==
  IF ~link.resolved THEN [link EXCEPT !.resolved = TRUE, !.pend = @ + 1] ELSE link

\* setTimeout(() => { if (!resolved) { resolveOnce() } }, 2000)
FallbackOf(link) == IF ~link.resolved THEN ResolveOnce(link) ELSE link

\* the stylesheet links a run injects, each with a promise
InjectedLinks(p, loaded) == {h \in p.links : h \notin loaded /\ LinkTarget(h) # Null}

\* the links a run injected
LinksOf(r) == {h \in DOMAIN styLinks : styLinks[h].run = r}

\* what the readiness block schedules at the end of the effect
ReadinessAtEnd(r, links, ext) ==
  IF links = {} /\ ext = {}
  THEN {[kind |-> "reveal", run |-> r, ms |-> RevealDelayNoAssets]}
  ELSE {}

InitStyle ==
  /\ styHtml \in StylePages \cup {EmptyHtml}
  /\ styDue = TRUE
  /\ styRun = 0
  /\ styLoading = TRUE
  /\ styStylesRef = {}
  /\ styScriptsRef = {}
  /\ styLinks = << >>
  /\ styScripts = << >>
  /\ styWaiting = << >>
  /\ styTasks = {}
  /\ styRevealed = {}
  /\ IdleLife
  /\ IdleUrl
  /\ IdleBody
  /\ IdleFixups
  /\ IdleLogo
  /\ IdleSettings
  /\ IdleRoute

\* the parent renders the component with another html
StyleSetHtml(p) ==
  /\ ~styDue
  /\ styRun < MaxStyleRuns
  /\ p # styHtml
  /\ styHtml' = p
  /\ styDue' = TRUE
  /\ UNCHANGED <<styRun, styLoading, styStylesRef, styScriptsRef, styLinks, styScripts,
                 styWaiting, styTasks, styRevealed>>
  /\ UNCHANGED notStyle

\* the effect on an html: links with their promises, scripts, readiness
StyleEffectOn(p, r, links, ext) ==
  /\ styRun' = r
  /\ styLoading' = TRUE
  /\ styStylesRef' = styStylesRef \cup links
  /\ styLinks' = [h \in DOMAIN styLinks \cup links |->
                    IF h \in links THEN NewLink(r) ELSE styLinks[h]]
  /\ styScriptsRef' = styScriptsRef \cup ext
  /\ styScripts' = [s \in DOMAIN styScripts \cup ext |->
                      IF s \in ext THEN "pending" ELSE styScripts[s]]
  /\ styWaiting' = [q \in DOMAIN styWaiting \cup {r} |->
                      IF q # r THEN styWaiting[q] ELSE IF links = {} THEN ext ELSE {}]
  /\ styTasks' = styTasks \cup ReadinessAtEnd(r, links, ext)

\* useEffect(() => { if (!containerRef.current || !html) return ... }, [html])
StyleEffect ==
  /\ styDue
  /\ styDue' = FALSE
  /\ IF styHtml.empty
     THEN UNCHANGED <<styRun, styLoading, styStylesRef, styScriptsRef, styLinks, styScripts,
                      styWaiting, styTasks>>
     ELSE StyleEffectOn(styHtml, styRun + 1, InjectedLinks(styHtml, styStylesRef),
                        AppendedScripts(styHtml, styScriptsRef))
  /\ UNCHANGED <<styHtml, styRevealed>>
  /\ UNCHANGED notStyle

\* clone.onload = resolveOnce; clone.onerror = resolveOnce
LinkEvent(h, ev) ==
  /\ h \in DOMAIN styLinks
  /\ ev \notin styLinks[h].fired
  /\ styLinks' = [styLinks EXCEPT ![h] = ResolveOnce(Fired(@, ev))]
  /\ UNCHANGED <<styHtml, styDue, styRun, styLoading, styStylesRef, styScriptsRef, styScripts,
                 styWaiting, styTasks, styRevealed>>
  /\ UNCHANGED notStyle

LinkLoad(h) == LinkEvent(h, "load")

LinkError(h) == LinkEvent(h, "error")

\* the 2000 ms timer of a link fires
FallbackFire(h) ==
  /\ h \in DOMAIN styLinks
  /\ "fallback" \notin styLinks[h].fired
  /\ styLinks' = [styLinks EXCEPT ![h] = FallbackOf(Fired(@, "fallback"))]
  /\ UNCHANGED <<styHtml, styDue, styRun, styLoading, styStylesRef, styScriptsRef, styScripts,
                 styWaiting, styTasks, styRevealed>>
  /\ UNCHANGED notStyle

\* Promise.all(stylePromises).then: the run's promises have all resolved
AllStylesResolved(links, r) == \A h \in DOMAIN links : links[h].run = r => links[h].resolves >= 1

\* the 100 ms timer of resolveOnce fires: resolve(); when it is the last
\* promise of its run, the then-callback asks for an animation frame
ApplyTimerFire(h) ==
  /\ h \in DOMAIN styLinks
  /\ styLinks[h].pend > 0
  /\ styLinks' = [styLinks EXCEPT ![h] = [@ EXCEPT !.pend = @ - 1, !.resolves = @ + 1]]
  /\ styTasks' = IF styLinks[h].resolves = 0 /\ AllStylesResolved(styLinks', styLinks[h].run)
                 THEN styTasks \cup {[kind |-> "frame1", run |-> styLinks[h].run, ms |-> 0]}
                 ELSE styTasks
  /\ UNCHANGED <<styHtml, styDue, styRun, styLoading, styStylesRef, styScriptsRef, styScripts,
                 styWaiting, styRevealed>>
  /\ UNCHANGED notStyle

\* requestAnimationFrame(() => { requestAnimationFrame(() => { ...
\*   setTimeout(() => { setIsLoading(false) }, 150) }) })
FrameFire(t) ==
  /\ t \in styTasks
  /\ t.kind \in {"frame1", "frame2"}
  /\ styTasks' = (styTasks \ {t}) \cup
        {IF t.kind = "frame1" THEN [kind |-> "frame2", run |-> t.run, ms |-> 0]
         ELSE [kind |-> "reveal", run |-> t.run, ms |-> RevealDelayStyles]}
  /\ UNCHANGED <<styHtml, styDue, styRun, styLoading, styStylesRef, styScriptsRef, styLinks,
                 styScripts, styWaiting, styRevealed>>
  /\ UNCHANGED notStyle

\* a script fires load or error; without stylesheets the run's readiness
\* waits for its scripts: Promise.all(scriptPromises).then(setTimeout 100)
StyleScriptEvent(s, ev) ==
  /\ s \in DOMAIN styScripts
  /\ styScripts[s] = "pending"
  /\ styScripts' = [styScripts EXCEPT ![s] = ev]
  /\ styWaiting' = [r \in DOMAIN styWaiting |-> styWaiting[r] \ {s}]
  /\ styTasks' = styTasks \cup
        {[kind |-> "reveal", run |-> r, ms |-> RevealDelayScripts] :
            r \in {q \in DOMAIN styWaiting : styWaiting[q] = {s}}}
  /\ UNCHANGED <<styHtml, styDue, styRun, styLoading, styStylesRef, styScriptsRef, styLinks,
                 styRevealed>>
  /\ UNCHANGED notStyle

\* setTimeout(() => { setIsLoading(false) }, ms)
RevealFire(t) ==
  /\ t \in styTasks
  /\ t.kind = "reveal"
  /\ styTasks' = styTasks \ {t}
  /\ styLoading' = FALSE
  /\ styRevealed' = styRevealed \cup {t.run}
  /\ UNCHANGED <<styHtml, styDue, styRun, styStylesRef, styScriptsRef, styLinks, styScripts,
                 styWaiting>>
  /\ UNCHANGED notStyle

StyleLinks == UNION {p.links : p \in StylePages}

StyleTasks ==
  [kind : {"frame1", "frame2", "reveal"}, run : 1..(MaxStyleRuns + 1),
   ms : {0, RevealDelayStyles, RevealDelayScripts, RevealDelayNoAssets}]

NextStyle ==
  \/ \E p \in StylePages \cup {EmptyHtml} : StyleSetHtml(p)
  \/ StyleEffect
  \/ \E h \in StyleLinks : LinkLoad(h) \/ LinkError(h) \/ FallbackFire(h) \/ ApplyTimerFire(h)
  \/ \E t \in StyleTasks : FrameFire(t)
  \/ \E t \in StyleTasks : RevealFire(t)
  \/ \E s \in AllScripts, ev \in {"load", "error"} : StyleScriptEvent(s, ev)

(***************************************************************************)
(* Claim on the stylesheet promises                                        *)
(***************************************************************************)

\* the runs whose then-callback has run: a frame or a reveal is pending or done
StyleSignalled == styRevealed \cup {t.run : t \in styTasks}

\* C2: a run that injected stylesheet links has its reveal scheduled only
\* after each of them has fired load, error or its fallback timer and its
\* promise has resolved; a promise resolves once, whatever events follow
C2_RevealAfterStyles ==
  /\ \A h \in DOMAIN styLinks :
        /\ styLinks[h].resolves <= 1
        /\ styLinks[h].resolves = 1 => styLinks[h].fired # {}
        /\ styLinks[h].fired # {} /\ styLinks[h].pend = 0 => styLinks[h].resolves = 1
  /\ \A r \in StyleSignalled :
        \A h \in LinksOf(r) : styLinks[h].fired # {} /\ styLinks[h].resolves = 1

C2_Witness ==
  \E r \in styRevealed :
     /\ \E h \in LinksOf(r) : styLinks[h].fired = {"load", "error", "fallback"}
     /\ \E h \in LinksOf(r) : styLinks[h].fired = {"fallback"}
     /\ ~styLoading

(***************************************************************************)
(* The body as a DOM tree.  A node is a record: a text node has the tag    *)
(* "#text" and its data in `text`; an element has a tag, its attributes in *)
(* document order and its child nodes.  body.innerHTML and                 *)
(* tempDiv.innerHTML = html carry the tree from one function to the next;  *)
(* the texts and attribute values of the pages hold no '<', '>', '&' or    *)
(* double quote, so that serialising escapes nothing.                      *)
(***************************************************************************)

TextNode(t) == [tag |-> "#text", attrs |-> << >>, kids |-> << >>, text |-> t]

Element(tag, attrs, kids) == [tag |-> tag, attrs |-> attrs, kids |-> kids, text |-> << >>]

Attr(name, value) == [name |-> name, value |-> value]

IsText(n) == n.tag = "#text"

\* the position of the attribute, 0 when the element has none of that name
AttrIndex(el, name) == LeastOf({i \in 1..Len(el.attrs) : el.attrs[i].name = name})

HasAttribute(el, name) == AttrIndex(el, name) # 0

GetAttribute(el, name) ==
  IF HasAttribute(el, name) THEN el.attrs[AttrIndex(el, name)].value ELSE Null

SetAttribute(el, name, value) ==
  IF HasAttribute(el, name)
  THEN [el EXCEPT !.attrs[AttrIndex(el, name)] = Attr(name, value)]
  ELSE [el EXCEPT !.attrs = Append(@, Attr(name, value))]

RemoveAttribute(el, name) == [el EXCEPT !.attrs = SelectSeq(@, LAMBDA a : a.name # name)]

RECURSIVE TextContent(_)
\* node.textContent
TextContent(n) ==
  IF IsText(n) THEN n.text
  ELSE Join([i \in 1..Len(n.kids) |-> TextContent(n.kids[i])], << >>)

\* el.textContent = t: the children are replaced by one text node
SetTextContent(el, t) ==
  [el EXCEPT !.kids = IF t = << >> THEN << >> ELSE <<TextNode(t)>>]

\* el.children.length === 0
NoChildElement(el) == \A i \in 1..Len(el.kids) : IsText(el.kids[i])

RECURSIVE EachNode(_, _, _)
\* querySelectorAll(...).forEach and the TreeWalker: document order, a node
\* before its children, chain being the ancestors of the node; what a
\* callback removes from the tree is visited detached and does not reach the
\* result
EachNode(F(_, _), n, chain) ==
  LET m == F(n, chain)
  IN  [m EXCEPT !.kids = [i \in 1..Len(m.kids) |-> EachNode(F, m.kids[i], <<m>> \o chain)]]

\* every node below the root (the body, or a temporary div)
ForEach(F(_, _), root) ==
  [root EXCEPT !.kids = [i \in 1..Len(root.kids) |-> EachNode(F, root.kids[i], <<root>>)]]

\* el.closest('img') && !el.closest('a[href]'), chain being el and its ancestors
InsideImgNotLink(chain) ==
  /\ \E i \in 1..Len(chain) : chain[i].tag = "img"
  /\ ~\E i \in 1..Len(chain) : chain[i].tag = "a" /\ HasAttribute(chain[i], "href")

\* tempDiv.innerHTML = html: the parser makes no empty text node
DropEmptyText(n, chain) ==
  IF IsText(n) THEN n
  ELSE [n EXCEPT !.kids = SelectSeq(@, LAMBDA k : ~(IsText(k) /\ k.text = << >>))]

ParseHtml(root) == ForEach(DropEmptyText, DropEmptyText(root, << >>))

\* a function of the HTML string that rewrites what lies between the markup:
\* every text and every attribute value
EachString(G(_), n) ==
  IF IsText(n) THEN [n EXCEPT !.text = G(@)]
  ELSE [n EXCEPT !.attrs = [i \in 1..Len(n.attrs) |->
                               Attr(n.attrs[i].name, G(n.attrs[i].value))]]

\* the attributes named in names rewritten by G
EachAttr(G(_), n, names) ==
  IF IsText(n) THEN n
  ELSE [n EXCEPT !.attrs = [i \in 1..Len(n.attrs) |->
                               IF n.attrs[i].name \in names
                               THEN Attr(n.attrs[i].name, G(n.attrs[i].value))
                               ELSE n.attrs[i]]]

(***************************************************************************)
(* url(...) in a style: /url\(Q?([^Q)]+)Q?\)/g, Q being a single or a      *)
(* double quote, and the same with the group holding alluredigital.net or  *)
(* rimalweb.net (flag i)                                                   *)
(***************************************************************************)

UrlQuotes == {"'", "\""}

\* the group that starts at i ends before the first quote or ')', at
\* j, or at the end of s when j = 0
GroupEndAt(s, j) == IF j = 0 THEN Len(s) + 1 ELSE j

GroupEnd(s, i) == GroupEndAt(s, LeastOf({j \in i..Len(s) : s[j] \in UrlQuotes \cup {")"}}))

\* position i, or i + 1 when s[i] is a quote
SkipQuote(s, i) == IF i <= Len(s) /\ s[i] \in UrlQuotes THEN i + 1 ELSE i

\* the group of the match that starts at j runs from g to e - 1; the ')' that
\* closes the match is at c; 0 when url( at j starts no match
UrlClose(s, g, e, c, domain) ==
  IF /\ e > g
     /\ c <= Len(s)
     /\ s[c] = ")"
     /\ domain => (\/ IncludesCI(SubSeq(s, g, e - 1), <<"a","l","l","u","r","e","d","i","g","i","t","a","l",".","n","e","t">>)
                   \/ IncludesCI(SubSeq(s, g, e - 1), <<"r","i","m","a","l","w","e","b",".","n","e","t">>))
  THEN c ELSE 0

UrlGroupEnd(s, g, domain) ==
  UrlClose(s, g, GroupEnd(s, g), SkipQuote(s, GroupEnd(s, g)), domain)

\* the position of the ')' that closes the match starting at j, 0 when none
UrlMatchEnd(s, j, ci, domain) ==
  IF MatchAt(s, <<"u","r","l","(">>, j, ci) THEN UrlGroupEnd(s, SkipQuote(s, j + 4), domain) ELSE 0

\* convert rimalweb.net back to alluredigital.net for the file name lookup
UrlToFix(url) ==
  IF Includes(url, <<"r","i","m","a","l","w","e","b",".","n","e","t">>)
  THEN ReplaceAllCI(url, <<"r","i","m","a","l","w","e","b",".","n","e","t">>, <<"a","l","l","u","r","e","d","i","g","i","t","a","l",".","n","e","t">>) ELSE url

RECURSIVE FixUrlsFrom(_, _, _, _)
\* the match at j, closed at c, replaced by url('<fixed>')
FixUrlAt(s, i, ci, domain, j, c) ==
  IF j = 0 THEN SubSeq(s, i, Len(s))
  ELSE SubSeq(s, i, j - 1) \o <<"u","r","l","(","'">>
       \o FixAssetUrl(IF domain
                      THEN UrlToFix(SubSeq(s, SkipQuote(s, j + 4), GroupEnd(s, SkipQuote(s, j + 4)) - 1))
                      ELSE SubSeq(s, SkipQuote(s, j + 4), GroupEnd(s, SkipQuote(s, j + 4)) - 1))
       \o <<"'",")">> \o FixUrlsFrom(s, c + 1, ci, domain)

FixUrlFirst(s, i, ci, domain, j) == FixUrlAt(s, i, ci, domain, j, UrlMatchEnd(s, j, ci, domain))

\* style.replace(/url\(...\)/g, (match, url) => `url('${fixAssetUrl(url)}')`)
FixUrlsFrom(s, i, ci, domain) ==
  FixUrlFirst(s, i, ci, domain,
              LeastOf({j \in i..Len(s) : UrlMatchEnd(s, j, ci, domain) # 0}))

FixStyleUrls(style) == FixUrlsFrom(style, 1, FALSE, FALSE)

FixDomainUrls(s) == FixUrlsFrom(s, 1, TRUE, TRUE)

(***************************************************************************)
(* The DOM passes over the scraped body, before its HTML is taken          *)
(***************************************************************************)

\* img[src]: the src becomes the local asset.  The images of the pages are
\* no logo and stand in no 'Welcome to' section, so that nothing else of the
\* callback applies
FixImage(n, chain) ==
  IF n.tag = "img" /\ HasAttribute(n, "src") /\ GetAttribute(n, "src") # << >>
  THEN SetAttribute(n, "src", FixAssetUrl(GetAttribute(n, "src")))
  ELSE n

\* link[href] in the body
FixBodyLink(n, chain) ==
  IF n.tag = "link" /\ HasAttribute(n, "href") /\ GetAttribute(n, "href") # << >>
  THEN SetAttribute(n, "href", FixAssetUrl(GetAttribute(n, "href")))
  ELSE n

\* the elements whose style holds 'background' 
FixBackground(n, chain) ==
  IF HasAttribute(n, "style") /\ Includes(GetAttribute(n, "style"), <<"b","a","c","k","g","r","o","u","n","d">>)
  THEN SetAttribute(n, "style", FixStyleUrls(GetAttribute(n, "style")))
  ELSE n

\* new URL(href), without a base: a URL with no scheme throws
NewURL(href) == IF SchemeEnd(href) = 0 THEN [ok |-> FALSE] ELSE ParseURL(href)

\* if (path.endsWith('/') && path !== '/') path = path.slice(0, -1)
DropTrailingSlash(path) ==
  IF EndsWith(path, <<"/">>) /\ path # <<"/">> THEN SubSeq(path, 1, Len(path) - 1) ELSE path

\* the routes of the base renderer, each mapped to itself
BaseRoutes ==
  {<<"/","s","o","c","i","a","l","-","m","e","d","i","a","-","m","a","n","a","g","e","m","e","n","t">>, <<"/","l","o","c","a","l","-","s","e","o">>, <<"/","p","p","c","-","a","d","v","e","r","t","i","s","i","n","g">>,
   <<"/","w","o","r","d","p","r","e","s","s","-","d","e","v","e","l","o","p","m","e","n","t">>, <<"/","c","o","n","t","a","c","t","-","u","s">>, <<"/","w","h","o","-","w","e","-","a","r","e">>, <<"/","p","o","r","t","f","o","l","i","o">>,
   <<"/","w","o","r","k">>, <<"/","b","l","o","g">>, <<"/","c","a","r","e","e","r","s">>}

\* the routes part_008 adds, each mapped to itself
AddedRoutes ==
  {<<"/","a","p","p","i","a","n","-","d","e","v","e","l","o","p","m","e","n","t">>, <<"/","g","o","o","g","l","e","-","a","d","s","-","m","a","n","a","g","e","m","e","n","t">>, <<"/","s","h","o","p","i","f","y","-","d","e","v","e","l","o","p","m","e","n","t">>,
   <<"/","b","r","i","c","k","s","-","b","u","i","l","d","e","r","-","d","e","v","e","l","o","p","m","e","n","t">>, <<"/","c","r","m","-","d","e","v","e","l","o","p","m","e","n","t">>, <<"/","g","o","o","g","l","e","-","m","a","p","-","o","p","t","i","m","i","z","a","t","i","o","n">>,
   <<"/","s","m","a","l","l","-","b","u","s","i","n","e","s","s","-","s","e","o","-","s","e","r","v","i","c","e">>, <<"/","l","o","c","a","l","-","b","u","s","i","n","e","s","s","-","c","i","t","a","t","i","o","n","s","-","b","u","i","l","d","i","n","g">>,
   <<"/","l","a","n","d","i","n","g","-","p","a","g","e","-","o","p","t","i","m","i","z","a","t","i","o","n">>, <<"/","t","e","c","h","n","i","c","a","l","-","s","e","o","-","s","e","r","v","i","c","e">>}

\* the routes part_008 maps to another page
Rerouted ==
  {<<<<"/","s","o","c","i","a","l","-","m","e","d","i","a","-","m","a","r","k","e","t","i","n","g">>, <<"/","s","o","c","i","a","l","-","m","e","d","i","a","-","m","a","n","a","g","e","m","e","n","t">>>>,
   <<<<"/","s","o","f","t","w","a","r","e","-","d","e","v","e","l","o","p","m","e","n","t">>, <<"/","a","p","p","i","a","n","-","d","e","v","e","l","o","p","m","e","n","t">>>>,
   <<<<"/","p","p","c","-","a","d","v","e","r","t","i","s","i","n","g">>, <<"/","g","o","o","g","l","e","-","a","d","s","-","m","a","n","a","g","e","m","e","n","t">>>>}

\* routeMap, as the set of its <<key, value>> pairs
RouteMap(rend) ==
  IF rend = "base" THEN {<<k, k>> : k \in BaseRoutes}
  ELSE Rerouted \cup {<<k, k>> : k \in (BaseRoutes \cup AddedRoutes) \ {kv[1] : kv \in Rerouted}}

\* the four branches that set the href from the path
RouteOf(rend, path) ==
  IF \E kv \in RouteMap(rend) : kv[1] = path
  THEN (CHOOSE kv \in RouteMap(rend) : kv[1] = path)[2]
  ELSE IF StartsWith(path, <<"/","b","l","o","g","/">>) THEN path
  ELSE IF path = <<"/">> \/ path = << >> THEN <<"/">>
  ELSE path

\* the group of href.match(/alluredigital\.net([^?#]*)/)
PathMatch(href, at) ==
  IF at = 0 THEN << >>
  ELSE SubSeq(href, at + Len(BaseHost),
              FirstOf(SubSeq(href, at + Len(BaseHost), Len(href)), {"?", "#"})
                + at + Len(BaseHost) - 2)

\* the catch branch: the path is taken from the text of the href
RouteByMatch(a, path) ==
  IF path = << >> THEN a
  ELSE SetAttribute(a, "href", OrDefault(DropTrailingSlash(path), <<"/">>))

\* the try branch, url being what new URL(href) returned
RouteByURL(rend, a, url) ==
  IF url.ok THEN SetAttribute(a, "href", RouteOf(rend, DropTrailingSlash(url.pathname)))
  ELSE RouteByMatch(a, PathMatch(GetAttribute(a, "href"),
                                 NextMatch(GetAttribute(a, "href"), BaseHost, 1, FALSE, FALSE)))

\* what the href of a Google Maps or location link holds
MapsHosts ==
  {<<"m","a","p","s",".","g","o","o","g","l","e",".","c","o","m">>, <<"m","a","p","s",".","g","o","o","g","l","e","a","p","i","s",".","c","o","m">>, <<"g","o","o","g","l","e",".","c","o","m","/","m","a","p","s">>, <<"g","o","o",".","g","l","/","m","a","p","s">>,
   <<"m","a","p","s",".","a","p","p",".","g","o","o",".","g","l">>}

MapsWords ==
  {<<"f","i","n","d"," ","u","s"," ","o","n"," ","g","o","o","g","l","e"," ","m","a","p">>, <<"f","i","n","d"," ","u","s"," ","o","n"," ","m","a","p">>, <<"o","u","r"," ","l","o","c","a","t","i","o","n">>, <<"g","e","t"," ","d","i","r","e","c","t","i","o","n","s">>}

IsMapsLink(href) ==
  \/ \E w \in MapsHosts : Includes(href, w)
  \/ \E w \in MapsWords : IncludesCI(href, w)
  \/ /\ Includes(href, <<"q","=">>)
     /\ \E w \in {<<"B","r","o","o","k","l","y","n">>, <<"5","3","0","0">>, <<"K","i","n","g","s"," ","H","i","g","h","w","a","y">>} : Includes(href, w)

\* the element a styled through its style properties, which had no style
Unlinked(a) ==
  SetAttribute(RemoveAttribute(a, "href"), "style",
               <<"p","o","i","n","t","e","r","-","e","v","e","n","t","s",":"," ","n","o","n","e",";"," ","c","u","r","s","o","r",":"," ","d","e","f","a","u","l","t",";"," ","t","e","x","t","-","d","e","c","o","r","a","t","i","o","n",":"," ","n","o","n","e",";">>)

\* `${currentStyle} pointer-events: none; cursor: default;`.trim()
Disabled(a) ==
  SetAttribute(RemoveAttribute(a, "href"), "style",
               Trim((IF HasAttribute(a, "style") THEN GetAttribute(a, "style") ELSE << >>)
                    \o <<" ","p","o","i","n","t","e","r","-","e","v","e","n","t","s",":"," ","n","o","n","e",";"," ","c","u","r","s","o","r",":"," ","d","e","f","a","u","l","t",";">>))

DummyTel == <<"t","e","l",":","+","1","5","5","5","1","2","3","4","5","6","7">>

DummyMailto == <<"m","a","i","l","t","o",":","i","n","f","o","@","r","i","m","a","l","w","e","b",".","c","o","m">>

\* the a[href] callback of the base renderer
LinkBase(a, href) ==
  IF StartsWith(href, <<"t","e","l",":">>) \/ StartsWith(href, <<"m","a","i","l","t","o",":">>) THEN Disabled(a)
  ELSE IF Includes(href, BaseHost) THEN RouteByURL("base", a, NewURL(href))
  ELSE a

\* the a[href] callback of part_008; an href that holds alluredigital.net holds
\* no other e-mail address for the else branch of mailto: to replace
Link008(a, href) ==
  IF IsMapsLink(href) THEN Unlinked(a)
  ELSE IF StartsWith(href, <<"t","e","l",":">>) THEN SetAttribute(a, "href", DummyTel)
  ELSE IF StartsWith(href, <<"m","a","i","l","t","o",":">>)
       THEN (IF Includes(href, BaseHost) THEN SetAttribute(a, "href", DummyMailto) ELSE a)
  ELSE IF Includes(href, BaseHost) THEN RouteByURL("part_008", a, NewURL(href))
  ELSE a

\* body.querySelectorAll('a[href]').forEach
FixLink(rend, n) ==
  IF n.tag = "a" /\ HasAttribute(n, "href") /\ GetAttribute(n, "href") # << >>
  THEN (IF rend = "base" THEN LinkBase(n, GetAttribute(n, "href"))
                         ELSE Link008(n, GetAttribute(n, "href")))
  ELSE n

\* the DOM passes of the effect over the parsed body, in their order
FixBodyDom(rend, root) ==
  ForEach(LAMBDA n, chain : FixLink(rend, n),
          ForEach(FixBackground, ForEach(FixBodyLink, ForEach(FixImage, root))))

(***************************************************************************)
(* The passes over the HTML string of the body.  The pages hold no         *)
(* data-settings and no srcset attribute, which the first and the third    *)
(* pass rewrite.                                                           *)
(***************************************************************************)

\* the value of a src that holds alluredigital.net, or rimalweb.net
FixSrcValue(value) ==
  IF IncludesCI(value, <<"a","l","l","u","r","e","d","i","g","i","t","a","l",".","n","e","t">>) THEN FixAssetUrl(value)
  ELSE IF IncludesCI(value, <<"r","i","m","a","l","w","e","b",".","n","e","t">>)
       THEN FixAssetUrl(ReplaceAllCI(value, <<"r","i","m","a","l","w","e","b",".","n","e","t">>, <<"a","l","l","u","r","e","d","i","g","i","t","a","l",".","n","e","t">>))
       ELSE value

\* the attribute names that end with src
SrcNames == {"src", "data-src"}

\* bodyHtml after its replace calls; the call of part_008 for
\* background-image: url(...) writes again what the url(...) call wrote
FixBodyHtml(root) ==
  ForEach(LAMBDA n, chain : EachString(FixDomainUrls, EachAttr(FixSrcValue, n, SrcNames)),
          root)

(***************************************************************************)
(* replaceBranding                                                         *)
(***************************************************************************)

NewName == <<"R","i","m","a","l","w","e","b">>

\* .replace(/\bAllure Digital\b/gi, ...).replace(/\bAllureDigital\b/gi, ...)
\* .replace(/\ballure digital\b/gi, ...)
RebrandWords(text) ==
  ReplaceWordCI(ReplaceWordCI(ReplaceWordCI(text, <<"A","l","l","u","r","e"," ","D","i","g","i","t","a","l">>, NewName),
                              <<"A","l","l","u","r","e","D","i","g","i","t","a","l">>, NewName),
                <<"a","l","l","u","r","e"," ","d","i","g","i","t","a","l">>, NewName)

\* .replace(/Allure Digital/gi, ...).replace(/AllureDigital/gi, ...)
RebrandTwo(value) ==
  ReplaceAllCI(ReplaceAllCI(value, <<"A","l","l","u","r","e"," ","D","i","g","i","t","a","l">>, NewName), <<"A","l","l","u","r","e","D","i","g","i","t","a","l">>, NewName)

\* the same followed by .replace(/allure digital/gi, ...)
RebrandThree(value) == ReplaceAllCI(RebrandTwo(value), <<"a","l","l","u","r","e"," ","d","i","g","i","t","a","l">>, NewName)

\* value && (value.includes('Allure') || value.includes('allure'))
MentionsAllure(value) == Includes(value, <<"A","l","l","u","r","e">>) \/ Includes(value, <<"a","l","l","u","r","e">>)

RebrandTwoIfMentioned(value) == IF MentionsAllure(value) THEN RebrandTwo(value) ELSE value

RebrandThreeIfMentioned(value) == IF MentionsAllure(value) THEN RebrandThree(value) ELSE value

\* the parents whose text the walker leaves alone
SkipsParent(parent, chain) ==
  \/ parent.tag \in {"script", "style", "noscript"}
  \/ HasAttribute(parent, "src") /\ parent.tag # "a"
  \/ InsideImgNotLink(chain)
  \/ HasAttribute(parent, "href") /\ parent.tag # "a"

UrlExtensions == {<<".","p","n","g">>, <<".","j","p","g">>, <<".","j","p","e","g">>, <<".","g","i","f">>, <<".","s","v","g">>, <<".","c","s","s">>, <<".","j","s">>}

\* the four matches that make the walker take a text for a URL or a path
LooksLikeUrl(text) ==
  \/ IncludesCI(text, <<"h","t","t","p",":","/","/">>) \/ IncludesCI(text, <<"h","t","t","p","s",":","/","/">>)
  \/ Includes(text, <<"/","a","s","s","e","t","s","/">>)
  \/ \E e \in UrlExtensions : IncludesCI(text, e)
  \/ Len(text) >= 2 /\ text[1] = "/" /\ text[2] # "/"

\* the body of the TreeWalker loop, chain[1] being the parent of the text
WalkText(n, chain) ==
  IF IsText(n) /\ n.text # << >> /\ ~SkipsParent(chain[1], chain) /\ ~LooksLikeUrl(n.text)
  THEN [n EXCEPT !.text = RebrandWords(@)]
  ELSE n

RebrandTitle(n, chain) ==
  IF n.tag = "title" /\ TextContent(n) # << >>
  THEN SetTextContent(n, RebrandTwo(TextContent(n)))
  ELSE n

\* img[alt]
RebrandAlt(n, chain) ==
  IF n.tag = "img" THEN EachAttr(RebrandTwoIfMentioned, n, {"alt"}) ELSE n

HeadingTags == {"h1", "h2", "h3", "h4", "h5", "h6"}

HeadingClasses == {<<"e","l","e","m","e","n","t","o","r","-","h","e","a","d","i","n","g","-","t","i","t","l","e">>, <<"b","d","t","-","e","p","-","h","o","v","e","r","-","b","o","x","-","t","i","t","l","e">>}

\* the class attribute, empty when there is none
ClassOf(el) == IF HasAttribute(el, "class") THEN GetAttribute(el, "class") ELSE << >>

\* the selector of the heading pass, for a class attribute cls
IsHeading(el, cls) ==
  \/ el.tag \in HeadingTags
  \/ \E i \in 1..Len(Split(cls, " ")) : Split(cls, " ")[i] \in HeadingClasses
  \/ HasAttribute(el, "class") /\ Includes(cls, <<"h","e","a","d","i","n","g">>)

\* if (newText !== originalText) heading.textContent = newText
FlattenIfChanged(el, originalText, newText) ==
  IF newText # originalText THEN SetTextContent(el, newText) ELSE el

RebrandHeading(n, chain) ==
  IF ~IsText(n) /\ IsHeading(n, ClassOf(n))
  THEN FlattenIfChanged(n, TextContent(n), RebrandWords(TextContent(n)))
  ELSE n

SpanTags == {"span", "div", "p", "li"}

\* the direct text nodes of el rebranded
RebrandDirectText(el) ==
  [el EXCEPT !.kids = [i \in 1..Len(@) |->
                          IF IsText(@[i]) THEN [@[i] EXCEPT !.text = RebrandWords(@)]
                          ELSE @[i]]]

\* the span, div, p, li callback once newText is known
RebrandSpanText(el, originalText, newText) ==
  IF newText = originalText THEN el
  ELSE IF NoChildElement(el) THEN SetTextContent(el, newText)
  ELSE RebrandDirectText(el)

RebrandSpan(n, chain) ==
  IF n.tag \in SpanTags /\ ~InsideImgNotLink(<<n>> \o chain)
  THEN RebrandSpanText(n, TextContent(n), RebrandWords(TextContent(n)))
  ELSE n

DataNames == {"data-title", "data-text", "data-content"}

\* the walker and the passes the two renderers share, up to the span pass
RebrandText(markup) ==
  ForEach(RebrandSpan,
          ForEach(RebrandHeading,
                  ForEach(RebrandAlt,
                          ForEach(RebrandTitle, ForEach(WalkText, ParseHtml(markup))))))

\* replaceBranding of the base renderer
ReplaceBranding(markup) ==
  ForEach(LAMBDA n, chain : EachAttr(RebrandTwoIfMentioned, n, DataNames), RebrandText(markup))

MoreDataNames == DataNames \cup {"data-name", "data-label"}

AriaNames == {"aria-label", "title", "placeholder"}

\* the attributes the catch-all pass skips
UrlAttrs == {"src", "href", "srcset", "data-src", "data-srcset"}

\* Array.from(el.attributes).forEach of the catch-all pass
RebrandOtherAttrs(n, chain) ==
  IF IsText(n) THEN n
  ELSE [n EXCEPT !.attrs = [i \in 1..Len(@) |->
                               IF @[i].name \in UrlAttrs THEN @[i]
                               ELSE Attr(@[i].name, RebrandThreeIfMentioned(@[i].value))]]

\* replaceBranding of part_008; the pages hold no JSON-LD script for the
\* pass before the catch-all
ReplaceBranding008(markup) ==
  ForEach(RebrandOtherAttrs,
          ForEach(LAMBDA n, chain : EachAttr(RebrandThreeIfMentioned, n, AriaNames),
                  ForEach(LAMBDA n, chain : EachAttr(RebrandThreeIfMentioned, n, MoreDataNames),
                          RebrandText(markup))))

(***************************************************************************)
(* removeContactInfo and replaceContactInfo.  The pages hold no telephone  *)
(* number, no tel: link and no street address, so that the replace calls   *)
(* for them return their argument; the calls for e-mail addresses remain.  *)
(***************************************************************************)

DummyEmail == <<"i","n","f","o","@","r","i","m","a","l","w","e","b",".","c","o","m">>

InfoEmail == <<"i","n","f","o","@","a","l","l","u","r","e","d","i","g","i","t","a","l",".","n","e","t">>

AtDomain == <<"@","a","l","l","u","r","e","d","i","g","i","t","a","l",".","n","e","t">>

\* [a-zA-Z0-9._%+-]
IsLocalChar(c) == IsAlpha(c) \/ IsDigit(c) \/ c \in {".", "_", "%", "+", "-"}

\* the least position >= i of an '@alluredigital.net' that follows a local part
EmailAt(s, i) ==
  LeastOf({j \in (i + 1)..Len(s) : MatchAt(s, AtDomain, j, TRUE) /\ IsLocalChar(s[j - 1])})

\* where the local part that ends before j starts, not before i
LocalStart(s, i, j) ==
  LeastOf({k \in i..(j - 1) : \A m \in k..(j - 1) : IsLocalChar(s[m])})

RECURSIVE ReplaceEmailsFrom(_, _, _)
ReplaceEmailAt(s, r, i, j) ==
  IF j = 0 THEN SubSeq(s, i, Len(s))
  ELSE SubSeq(s, i, LocalStart(s, i, j) - 1) \o r
       \o ReplaceEmailsFrom(s, r, j + Len(AtDomain))

\* s.replace(/[a-zA-Z0-9._%+-]+@alluredigital\.net/gi, r) from position i on
ReplaceEmailsFrom(s, r, i) == ReplaceEmailAt(s, r, i, EmailAt(s, i))

\* the three replace calls for e-mail addresses; the third, for mailto:,
\* finds no address left
ReplaceEmails(s, r) == ReplaceEmailsFrom(ReplaceAllCI(s, InfoEmail, r), r, 1)

\* el.childNodes.length === 1 && el.childNodes[0].nodeType === 3
OnlyText(el) == Len(el.kids) = 1 /\ IsText(el.kids[1])

\* the * callback of removeContactInfo, text being the textContent replaced
RemoveFromText(el, textContent, text) ==
  IF text # textContent /\ OnlyText(el) THEN SetTextContent(el, Trim(text)) ELSE el

RemoveFromElement(n, chain) ==
  IF ~IsText(n) /\ TextContent(n) # << >>
  THEN RemoveFromText(n, TextContent(n), ReplaceAllCI(TextContent(n), InfoEmail, << >>))
  ELSE n

RemoveContactInfo(markup) ==
  ForEach(RemoveFromElement,
          ParseHtml(ForEach(LAMBDA n, chain :
                              EachString(LAMBDA s : ReplaceEmails(s, << >>), n), markup)))

\* the direct text nodes of el with info@alluredigital.net replaced
ReplaceInDirectText(el) ==
  [el EXCEPT !.kids = [i \in 1..Len(@) |->
                          IF IsText(@[i])
                          THEN [@[i] EXCEPT !.text = ReplaceAllCI(@, InfoEmail, DummyEmail)]
                          ELSE @[i]]]

\* the * callback of replaceContactInfo
ReplaceInText(el, originalText, text) ==
  IF text = originalText THEN el
  ELSE IF OnlyText(el) THEN SetTextContent(el, Trim(text))
  ELSE ReplaceInDirectText(el)

ReplaceInElement(n, chain) ==
  IF ~IsText(n) /\ TextContent(n) # << >>
  THEN ReplaceInText(n, TextContent(n), ReplaceEmails(TextContent(n), DummyEmail))
  ELSE n

\* the a[href] callback of replaceContactInfo
ReplaceLink(a, href) ==
  IF IsMapsLink(href) THEN Unlinked(a)
  ELSE IF StartsWith(href, <<"t","e","l",":">>) THEN SetAttribute(a, "href", DummyTel)
  ELSE IF StartsWith(href, <<"m","a","i","l","t","o",":">>) /\ Includes(href, BaseHost)
       THEN SetAttribute(a, "href", DummyMailto)
  ELSE a

ReplaceInLink(n, chain) ==
  IF n.tag = "a" /\ HasAttribute(n, "href") THEN ReplaceLink(n, GetAttribute(n, "href")) ELSE n

ReplaceContactInfo(markup) ==
  ForEach(ReplaceInLink,
          ForEach(ReplaceInElement,
                  ParseHtml(ForEach(LAMBDA n, chain :
                                      EachString(LAMBDA s : ReplaceEmails(s, DummyEmail), n),
                                    markup))))

(***************************************************************************)
(* SpecBody: the body of a scraped page through the rewriting of the       *)
(* effect, from doc.body to containerRef.current.innerHTML.  A body is one *)
(* element of an Elementor page: a container, a paragraph, a heading or a  *)
(* list item that holds a text, or an anchor, a span, a strong or an image *)
(* with a text before or after it.                                         *)
(***************************************************************************)

BodyRenderers == {"base", "part_008"}

OuterTags == {"div", "p", "h2", "li"}

HeroStyle == <<"b","a","c","k","g","r","o","u","n","d","-","i","m","a","g","e",":"," ","u","r","l","(","h","t","t","p","s",":","/","/","a","l","l","u","r","e","d","i","g","i","t","a","l",".","n","e","t","/","w","p","-","c","o","n","t","e","n","t","/","u","p","l","o","a","d","s","/","h","e","r","o",".","j","p","g",")">>

OuterAttrs ==
  {<< >>,
   <<Attr("class", <<"e","l","e","m","e","n","t","o","r","-","h","e","a","d","i","n","g","-","t","i","t","l","e">>), Attr("data-title", <<"A","b","o","u","t"," ","A","l","l","u","r","e"," ","D","i","g","i","t","a","l">>)>>,
   <<Attr("style", HeroStyle), Attr("title", <<"A","l","l","u","r","e","D","i","g","i","t","a","l">>)>>}

Texts ==
  {<<"A","l","l","u","r","e"," ","D","i","g","i","t","a","l">>, <<"A","l","l","u","r","e","D","i","g","i","t","a","l"," ","b","u","i","l","d","s"," ","N","o","d","e",".","j","s"," ","a","p","p","s">>,
   <<"V","i","s","i","t"," ","h","t","t","p","s",":","/","/","a","l","l","u","r","e","d","i","g","i","t","a","l",".","n","e","t"," ","t","o","d","a","y">>, <<"M","a","i","l"," ","s","a","l","e","s","@","a","l","l","u","r","e","d","i","g","i","t","a","l",".","n","e","t"," ","n","o","w">>,
   <<"O","u","r"," ","t","e","a","m">>}

LinkSchemes == {<<"h","t","t","p","s",":","/","/">>, <<"h","t","t","p","s",":","/","/","w","w","w",".">>, <<"/","/">>}

LinkPaths ==
  {<< >>, <<"/","w","h","o","-","w","e","-","a","r","e","/">>, <<"/","p","p","c","-","a","d","v","e","r","t","i","s","i","n","g">>, <<"/","b","l","o","g","/","s","e","o","-","t","i","p","s","/">>, <<"/","s","e","r","v","i","c","e","s","/","w","e","b","/">>}

LinkTails == {<< >>, <<"?","u","t","m","=","1","#","t","e","a","m">>}

LinkTexts == {<<"R","e","a","d"," ","m","o","r","e">>, <<"W","h","y"," ","A","l","l","u","r","e"," ","D","i","g","i","t","a","l"," ","u","s","e","s"," ","N","o","d","e",".","j","s">>, <<"A","l","l","u","r","e">>}

Emails == {InfoEmail, <<"s","a","l","e","s","@","a","l","l","u","r","e","d","i","g","i","t","a","l",".","n","e","t">>}

TeamImage == <<"h","t","t","p","s",":","/","/","a","l","l","u","r","e","d","i","g","i","t","a","l",".","n","e","t","/","w","p","-","c","o","n","t","e","n","t","/","u","p","l","o","a","d","s","/","2","0","2","2","/","1","2","/","t","e","a","m","-","3","0","0","x","2","0","0",".","p","n","g">>

\* what stands inside the outer element, by its components
Inner(kind, scheme, path, tail, text) ==
  [kind |-> kind, scheme |-> scheme, path |-> path, tail |-> tail, text |-> text]

NoInner == Inner("none", << >>, << >>, << >>, << >>)

Inners ==
  {Inner("link", s, p, t, x) : s \in LinkSchemes, p \in LinkPaths, t \in LinkTails,
                               x \in LinkTexts}
  \cup {Inner("mail", <<"m","a","i","l","t","o",":">>, << >>, << >>, x) : x \in Emails}
  \cup {Inner(k, << >>, << >>, << >>, x) : k \in {"span", "strong"}, x \in Texts}
  \cup {Inner("img", << >>, << >>, << >>, <<"A","l","l","u","r","e"," ","D","i","g","i","t","a","l"," ","t","e","a","m">>)}

\* the text before and the text after the inner element
Wraps == {<<<< >>, << >>>>, <<<<"M","e","e","t"," ">>, << >>>>, <<<< >>, <<" ","D","i","g","i","t","a","l">>>>}

BodyRequests ==
  {[tag |-> g, attrs |-> a, lead |-> w[1], inner |-> e, trail |-> w[2]] :
     g \in OuterTags, a \in OuterAttrs, w \in Wraps, e \in Inners}
  \cup {[tag |-> g, attrs |-> a, lead |-> x, inner |-> NoInner, trail |-> << >>] :
          g \in OuterTags, a \in OuterAttrs, x \in Texts}

\* the href of a link as the page writes it
HrefOf(e) == e.scheme \o BaseHost \o e.path \o e.tail

InnerElement(e) ==
  CASE e.kind = "link" -> Element("a", <<Attr("href", HrefOf(e))>>, <<TextNode(e.text)>>)
    [] e.kind = "mail" -> Element("a", <<Attr("href", e.scheme \o e.text)>>,
                                  <<TextNode(e.text)>>)
    [] e.kind = "img"  -> Element("img", <<Attr("src", TeamImage), Attr("alt", e.text)>>,
                                  << >>)
    [] e.kind = "none" -> TextNode(<< >>)
    [] OTHER           -> Element(e.kind, << >>, <<TextNode(e.text)>>)

\* parser.parseFromString(html, 'text/html').body
ParsedBody(req) ==
  ParseHtml(Element("body", << >>,
                    <<Element(req.tag, req.attrs,
                              <<TextNode(req.lead), InnerElement(req.inner),
                                TextNode(req.trail)>>)>>))

InitBody ==
  /\ bRend \in BodyRenderers
  /\ bReq \in BodyRequests
  /\ bBody = ParsedBody(bReq)
  /\ bodyHtml = {}
  /\ cleanedHtml = {}
  /\ container = {}
  /\ bpc = "parsed"
  /\ IdleLife
  /\ IdleStyle
  /\ IdleUrl
  /\ IdleFixups
  /\ IdleLogo
  /\ IdleSettings
  /\ IdleRoute

\* the querySelectorAll passes over doc.body
FixDom ==
  /\ bpc = "parsed"
  /\ bBody' = FixBodyDom(bRend, bBody)
  /\ bpc' = "dom"
  /\ UNCHANGED <<bRend, bReq, bodyHtml, cleanedHtml, container>>
  /\ UNCHANGED notBody

\* let bodyHtml = body.innerHTML and its replace calls
FixHtml ==
  /\ bpc = "dom"
  /\ bodyHtml' = FixBodyHtml(bBody)
  /\ bpc' = "html"
  /\ UNCHANGED <<bRend, bReq, bBody, cleanedHtml, container>>
  /\ UNCHANGED notBody

\* let cleanedHtml = replaceBranding(bodyHtml)
CallReplaceBranding ==
  /\ bpc = "html"
  /\ cleanedHtml' = IF bRend = "base" THEN ReplaceBranding(bodyHtml)
                                      ELSE ReplaceBranding008(bodyHtml)
  /\ bpc' = "branded"
  /\ UNCHANGED <<bRend, bReq, bBody, bodyHtml, container>>
  /\ UNCHANGED notBody

\* cleanedHtml = removeContactInfo(cleanedHtml), in the base renderer
CallRemoveContactInfo ==
  /\ bpc = "branded"
  /\ bRend = "base"
  /\ cleanedHtml' = RemoveContactInfo(cleanedHtml)
  /\ bpc' = "cleaned"
  /\ UNCHANGED <<bRend, bReq, bBody, bodyHtml, container>>
  /\ UNCHANGED notBody

\* cleanedHtml = replaceContactInfo(cleanedHtml), in part_008
CallReplaceContactInfo ==
  /\ bpc = "branded"
  /\ bRend = "part_008"
  /\ cleanedHtml' = ReplaceContactInfo(cleanedHtml)
  /\ bpc' = "cleaned"
  /\ UNCHANGED <<bRend, bReq, bBody, bodyHtml, container>>
  /\ UNCHANGED notBody

\* containerRef.current.innerHTML = cleanedHtml; the headings of the pages hold
\* none of the phrases that modifyHomepageHeadings of part_008 rewords before
SetInnerHtml ==
  /\ bpc = "cleaned"
  /\ container' = ParseHtml(cleanedHtml)
  /\ bpc' = "inserted"
  /\ UNCHANGED <<bRend, bReq, bBody, bodyHtml, cleanedHtml>>
  /\ UNCHANGED notBody

NextBody ==
  \/ FixDom
  \/ FixHtml
  \/ CallReplaceBranding
  \/ CallRemoveContactInfo
  \/ CallReplaceContactInfo
  \/ SetInnerHtml

(***************************************************************************)
(* Properties of the rewriting of the body                                 *)
(***************************************************************************)

RECURSIVE NodesOf(_)
\* the nodes below n and n itself, in document order
NodesOf(n) == <<n>> \o Join([i \in 1..Len(n.kids) |-> NodesOf(n.kids[i])], << >>)

\* the elements a of a tree
AnchorsOf(root) == SelectSeq(NodesOf(root), LAMBDA n : n.tag = "a")

RECURSIVE VisibleTexts(_)
\* the data of the text nodes that lie outside script, style and noscript
VisibleTexts(n) ==
  IF IsText(n) THEN <<n.text>>
  ELSE IF n.tag \in {"script", "style", "noscript"} THEN << >>
  ELSE Join([i \in 1..Len(n.kids) |-> VisibleTexts(n.kids[i])], << >>)

\* the attribute values of a tree that belong to the names, in document order
ValuesOf(root, names) ==
  Join([i \in 1..Len(NodesOf(root)) |->
          [k \in 1..Len(SelectSeq(NodesOf(root)[i].attrs, LAMBDA a : a.name \in names)) |->
             SelectSeq(NodesOf(root)[i].attrs, LAMBDA a : a.name \in names)[k].value]],
       << >>)

AllNames ==
  {"href", "src", "alt", "style", "class", "title", "data-title"}

\* the company name as a whole word, in any letter case
HasBrand(text) ==
  \E j \in 1..Len(text) :
    \/ PatternAt(text, <<"A","l","l","u","r","e"," ","D","i","g","i","t","a","l">>, j, TRUE, TRUE)
    \/ PatternAt(text, <<"A","l","l","u","r","e","D","i","g","i","t","a","l">>, j, TRUE, TRUE)

\* the route the links of a page are to get: the path without one trailing
\* '/', '/' for the root, looked up in the route map
RouteKey(path) ==
  IF path = << >> \/ path = <<"/">> THEN <<"/">>
  ELSE IF path[Len(path)] = "/" THEN SubSeq(path, 1, Len(path) - 1)
  ELSE path

ExpectedRoute(rend, key) ==
  IF \E kv \in RouteMap(rend) : kv[1] = key
  THEN (CHOOSE kv \in RouteMap(rend) : kv[1] = key)[2]
  ELSE key

\* the body under test holds a link with an absolute URL on alluredigital.net
HasAbsoluteLink == bReq.inner.kind = "link" /\ bReq.inner.scheme # <<"/","/">>

\* the content inserted holds the link, routed
LinkRouted ==
  /\ Len(AnchorsOf(container)) = 1
  /\ GetAttribute(AnchorsOf(container)[1], "href")
       = ExpectedRoute(bRend, RouteKey(bReq.inner.path))

\* C7: once the content is inserted, every anchor of the scraped body whose
\* href is an absolute URL on alluredigital.net is in it with the site-local
\* route of its path as its href, without scheme, host, query or fragment.
C7_LinksRouted == (bpc = "inserted" /\ HasAbsoluteLink) => LinkRouted

\* C8: after replaceBranding no text node outside script, style and noscript
\* holds the company name as a whole word, in any letter case, whatever its
\* parent element and whatever else it holds.
C8_NoBrandInVisibleText ==
  bpc = "branded" =>
    \A i \in 1..Len(VisibleTexts(cleanedHtml)) : ~HasBrand(VisibleTexts(cleanedHtml)[i])

\* the visible text of the scraped body holds an address at alluredigital.net
HasContactEmail ==
  \E i \in 1..Len(VisibleTexts(ParsedBody(bReq))) :
    EmailAt(VisibleTexts(ParsedBody(bReq))[i], 1) # 0

\* every '@' of s is that of the dummy address, which part_008 alone writes
OnlyDummyEmail(rend, s) ==
  \A i \in 1..Len(s) :
    s[i] = "@" => (rend = "part_008" /\ MatchAt(s, DummyEmail, i - 4, FALSE))

\* C9: when the visible text of the scraped body holds an address at
\* alluredigital.net, the content inserted holds no e-mail address but the
\* dummy info@rimalweb.com, and none at all in the base renderer.
C9_NoEmailSurvives ==
  (bpc = "inserted" /\ HasContactEmail) =>
    /\ \A i \in 1..Len(VisibleTexts(container)) :
         OnlyDummyEmail(bRend, VisibleTexts(container)[i])
    /\ \A i \in 1..Len(ValuesOf(container, AllNames)) :
         OnlyDummyEmail(bRend, ValuesOf(container, AllNames)[i])

AssetNames == {"src", "srcset", "href", "style", "data-settings"}

\* the values of the asset attributes that hold a local asset reference
AssetRefs(root) ==
  SelectSeq(ValuesOf(root, AssetNames),
            LAMBDA v : Includes(v, <<"/","a","s","s","e","t","s","/","a","l","l","u","r","e","d","i","g","i","t","a","l",".","n","e","t","_">>))

\* C10: every attribute value with a local asset reference
\* /assets/alluredigital.net_... in the input of replaceBranding is a value
\* of its output, unchanged, in both renderers.
C10_AssetUrlsKept ==
  bpc = "branded" =>
    \A i \in 1..Len(AssetRefs(bodyHtml)) :
      \E k \in 1..Len(AssetRefs(cleanedHtml)) :
        AssetRefs(cleanedHtml)[k] = AssetRefs(bodyHtml)[i]

(***************************************************************************)
(* SpecFixups: the handlers the effect installs on the inserted content.   *)
(* The effect installs them in one synchronous task; the load and error    *)
(* events of the elements and of their probe images run after it, in any   *)
(* order.  An image fires one event for each load it started.              *)
(***************************************************************************)

\* the greatest number of img elements and of Welcome scroll images
MaxImgs == 1

MaxWelcome == 2

\* the element fires no further event once its src was assigned that often
MaxAssigned == 3

SrcAsset == <<"/","a","s","s","e","t","s","/","a","l","l","u","r","e","d","i","g","i","t","a","l",".","n","e","t","_","w","p","-","c","o","n","t","e","n","t","_","u","p","l","o","a","d","s","_","t","e","a","m",".","p","n","g">>

SrcRelative == <<"i","m","a","g","e","s","/","t","e","a","m",".","p","n","g">>

SrcPng == <<"d","a","t","a",":","i","m","a","g","e","/","p","n","g",";","b","a","s","e","6","4",",","A","A","A","A">>

\* what createPlaceholderSvg returns, up to the size it writes
PlaceholderSvg == <<"d","a","t","a",":","i","m","a","g","e","/","s","v","g","+","x","m","l",",","%","3","C","s","v","g"," ","w","i","d","t","h","=","4","0","0"," ","h","e","i","g","h","t","=","3","0","0","%","3","E">>

ImgSrcs == {SrcAsset, SrcRelative, SrcPng, PlaceholderSvg}

\* if (src.includes('data:image/svg+xml')) return
IsPlaceholder(src) == Includes(src, <<"d","a","t","a",":","i","m","a","g","e","/","s","v","g","+","x","m","l">>)

\* (src.includes('/assets/') || src.includes('alluredigital.net') ||
\*  src.includes('rimalweb.net')) && !src.includes('data:')
IsLocalAsset(src) ==
  /\ \/ Includes(src, <<"/","a","s","s","e","t","s","/">>)
     \/ Includes(src, <<"a","l","l","u","r","e","d","i","g","i","t","a","l",".","n","e","t">>)
     \/ Includes(src, <<"r","i","m","a","l","w","e","b",".","n","e","t">>)
  /\ ~Includes(src, <<"d","a","t","a",":">>)

\* an img of the inserted content: src is its attribute, current what it
\* loads, loads the loads in flight; assigned counts the assignments of the
\* placeholder, replaced those of the element's own handler
NewImg(src) ==
  [src |-> src, current |-> src, onerror |-> FALSE, local |-> IsLocalAsset(src),
   probe |-> "none", loads |-> 1, assigned |-> 0, replaced |-> 0]

\* imgElement.src = placeholderSvg
AssignPlaceholder(im) ==
  [im EXCEPT !.current = PlaceholderSvg, !.assigned = @ + 1, !.loads = @ + 1]

\* the forEach callback over img[src]
InstallOnImg(im) ==
  IF IsPlaceholder(im.src) THEN im
  ELSE [im EXCEPT !.onerror = TRUE, !.probe = IF im.local THEN "pending" ELSE "none"]

OnErrorKeepsItself(im) ==
  IF im.local THEN [AssignPlaceholder(im) EXCEPT !.replaced = @ + 1] ELSE im

\* imgElement.onerror = function() { if (local asset) { ...
\*   imgElement.onerror = null; imgElement.src = placeholderSvg } }
OnError(im) ==
  IF im.local
  THEN [AssignPlaceholder(im) EXCEPT !.onerror = FALSE, !.replaced = @ + 1]
  ELSE im

\* the error event of the element: its handler runs when one is installed
ErrorOnImg(im) == IF im.onerror THEN OnError(im) ELSE im

\* testImg.onerror = function() { ... imgElement.src = placeholderSvg }
TestImgOnError(im) == [AssignPlaceholder(im) EXCEPT !.probe = "error"]

desktopImages ==
  <<<<"/","a","s","s","e","t","s","/","a","l","l","u","r","e","d","i","g","i","t","a","l",".","n","e","t","_","w","p","-","c","o","n","t","e","n","t","_","u","p","l","o","a","d","s","_","2","0","2","3","_","0","1","_","M","A","C","B","O","O","K",".","p","n","g">>,
    <<"/","a","s","s","e","t","s","/","a","l","l","u","r","e","d","i","g","i","t","a","l",".","n","e","t","_","w","p","-","c","o","n","t","e","n","t","_","u","p","l","o","a","d","s","_","2","0","2","3","_","0","1","_","i","m","a","c",".","p","n","g">>,
    <<"/","a","s","s","e","t","s","/","a","l","l","u","r","e","d","i","g","i","t","a","l",".","n","e","t","_","w","p","-","c","o","n","t","e","n","t","_","u","p","l","o","a","d","s","_","2","0","2","3","_","0","1","_","I","P","A","D","-","V","E","R",".","p","n","g">>,
    <<"/","a","s","s","e","t","s","/","a","l","l","u","r","e","d","i","g","i","t","a","l",".","n","e","t","_","w","p","-","c","o","n","t","e","n","t","_","u","p","l","o","a","d","s","_","2","0","2","3","_","0","1","_","r","e","s","p","o","n","s","i","v","e","-","d","e","v","i","c","e","s",".","p","n","g">>>>

\* desktopImages[i], the index counting from 0; undefined past the end
CandidateAt(i) == IF i < Len(desktopImages) THEN desktopImages[i + 1] ELSE <<"u","n","d","e","f","i","n","e","d">>

\* a scroll image of the Welcome section: let imageIndex = 0, no probe yet,
\* the background-image of its style as the page wrote it
NewWelcome == [imageIndex |-> 0, probes |-> << >>, background |-> Null]

\* const tryNextImage = () => { if (imageIndex < desktopImages.length) {
\*   const testImg = new Image() ... testImg.src = desktopImages[imageIndex] } }
TryNextImage(w) ==
  IF w.imageIndex < Len(desktopImages)
  THEN [w EXCEPT !.probes = Append(@, [src |-> CandidateAt(w.imageIndex), status |-> "pending"])]
  ELSE w

SameIndex(w) == w

\* imageIndex++
NextIndex(w) == [w EXCEPT !.imageIndex = @ + 1]

\* testImg.onload of the probe k
WelcomeOnLoad(w, k) ==
  [w EXCEPT !.probes[k].status = "load", !.background = CandidateAt(w.imageIndex)]

\* testImg.onerror of the probe k
WelcomeOnError(w, k) == TryNextImage(NextIndex([w EXCEPT !.probes[k].status = "error"]))

InitFixups ==
  /\ imgs \in UNION {[1..n -> {NewImg(s) : s \in ImgSrcs}] : n \in 1..MaxImgs}
  /\ welcome \in {[e \in 1..n |-> NewWelcome] : n \in 0..MaxWelcome}
  /\ fixpc = "inserted"
  /\ IdleLife
  /\ IdleStyle
  /\ IdleUrl
  /\ IdleBody
  /\ IdleLogo
  /\ IdleSettings
  /\ IdleRoute

\* containerRef.current.querySelectorAll('img[src]').forEach, then the
\* forEach over the background images, which starts the chain of each
\* Welcome scroll image
InstallHandlers ==
  /\ fixpc = "inserted"
  /\ imgs' = [i \in DOMAIN imgs |-> InstallOnImg(imgs[i])]
  /\ welcome' = [e \in DOMAIN welcome |-> TryNextImage(welcome[e])]
  /\ fixpc' = "installed"
  /\ UNCHANGED notFixups

\* a load of the element ends with the error event
ImgError(i) ==
  /\ fixpc = "installed"
  /\ i \in DOMAIN imgs
  /\ imgs[i].loads > 0
  /\ imgs[i].assigned < MaxAssigned
  /\ imgs' = [imgs EXCEPT ![i] = ErrorOnImg([@ EXCEPT !.loads = @ - 1])]
  /\ UNCHANGED <<welcome, fixpc>>
  /\ UNCHANGED notFixups

\* a load of the element ends with the load event, which has no handler
ImgLoad(i) ==
  /\ fixpc = "installed"
  /\ i \in DOMAIN imgs
  /\ imgs[i].loads > 0
  /\ imgs' = [imgs EXCEPT ![i].loads = @ - 1]
  /\ UNCHANGED <<welcome, fixpc>>
  /\ UNCHANGED notFixups

\* the probe of an img fires error
TestImgError(i) ==
  /\ i \in DOMAIN imgs
  /\ imgs[i].probe = "pending"
  /\ imgs' = [imgs EXCEPT ![i] = TestImgOnError(@)]
  /\ UNCHANGED <<welcome, fixpc>>
  /\ UNCHANGED notFixups

\* the probe of an img fires load, which has no handler
TestImgLoad(i) ==
  /\ i \in DOMAIN imgs
  /\ imgs[i].probe = "pending"
  /\ imgs' = [imgs EXCEPT ![i].probe = "load"]
  /\ UNCHANGED <<welcome, fixpc>>
  /\ UNCHANGED notFixups

\* a probe of a Welcome scroll image fires load
WelcomeLoad(e, k) ==
  /\ e \in DOMAIN welcome
  /\ k \in DOMAIN welcome[e].probes
  /\ welcome[e].probes[k].status = "pending"
  /\ welcome' = [welcome EXCEPT ![e] = WelcomeOnLoad(@, k)]
  /\ UNCHANGED <<imgs, fixpc>>
  /\ UNCHANGED notFixups

\* a probe of a Welcome scroll image fires error
WelcomeError(e, k) ==
  /\ e \in DOMAIN welcome
  /\ k \in DOMAIN welcome[e].probes
  /\ welcome[e].probes[k].status = "pending"
  /\ welcome' = [welcome EXCEPT ![e] = WelcomeOnError(@, k)]
  /\ UNCHANGED <<imgs, fixpc>>
  /\ UNCHANGED notFixups

\* more probes than a chain can start
ProbeIds == 1..(Len(desktopImages) + 2)

NextFixups ==
  \/ InstallHandlers
  \/ \E i \in 1..(MaxImgs + 1) : ImgError(i) \/ ImgLoad(i) \/ TestImgError(i) \/ TestImgLoad(i)
  \/ \E e \in 1..(MaxWelcome + 1), k \in ProbeIds : WelcomeLoad(e, k) \/ WelcomeError(e, k)

(***************************************************************************)
(* Claims on the image handlers                                            *)
(***************************************************************************)

\* the probes of a chain that are in the given status
ProbesIn(w, status) == {k \in DOMAIN w.probes : w.probes[k].status = status}

\* C15: the candidates of a Welcome scroll image are probed one at a time in
\* the order of the list; the background is candidate i only if the
\* candidates before it have all fired error and candidate i has fired load;
\* at most one probe is outstanding; imageIndex stays within 0..4; if all
\* four have fired error, no further probe starts and the background is as
\* it was
C15_FallbackChain ==
  \A e \in DOMAIN welcome :
     /\ \A k \in DOMAIN welcome[e].probes : welcome[e].probes[k].src = desktopImages[k]
     /\ Cardinality(ProbesIn(welcome[e], "pending")) <= 1
     /\ \A k \in DOMAIN welcome[e].probes :
           welcome[e].probes[k].status = "pending" => k = Len(welcome[e].probes)
     /\ welcome[e].imageIndex \in 0..4
     /\ welcome[e].background # Null =>
           \E k \in DOMAIN welcome[e].probes :
              /\ welcome[e].background = desktopImages[k]
              /\ welcome[e].probes[k].status = "load"
              /\ \A j \in 1..(k - 1) : welcome[e].probes[j].status = "error"
     /\ Cardinality(ProbesIn(welcome[e], "error")) = 4 =>
           /\ Len(welcome[e].probes) = 4
           /\ welcome[e].background = Null

C15_Witness ==
  /\ Len(welcome) = 2
  /\ ProbesIn(welcome[1], "error") = {1, 2, 3, 4}
  /\ welcome[1].imageIndex = 4
  /\ ProbesIn(welcome[2], "error") = {1, 2}
  /\ welcome[2].background = desktopImages[3]

\* C16: the own onerror handler of an img replaces the src at most once,
\* the src is assigned the placeholder at most twice, whatever the order of
\* the error events of the element and of its probe, and an img whose src is
\* a data:image/svg+xml placeholder gets no handler
C16_PlaceholderBounded ==
  \A i \in DOMAIN imgs :
     /\ imgs[i].replaced <= 1
     /\ imgs[i].assigned <= 2
     /\ imgs[i].replaced = 1 => ~imgs[i].onerror
     /\ IsPlaceholder(imgs[i].src) =>
           ~imgs[i].onerror /\ imgs[i].probe = "none" /\ imgs[i].assigned = 0

C16_Witness ==
  /\ fixpc = "installed"
  /\ imgs[1].src = SrcAsset
  /\ imgs[1].probe = "error"
  /\ imgs[1].replaced = 1
  /\ imgs[1].assigned = 2
  /\ imgs[1].loads = 0
  /\ ~imgs[1].onerror

(***************************************************************************)
(* SpecLogo: the size of the logo that replaces a header or footer logo.   *)
(* A number is a record: NaN, or an integer n.                             *)
(***************************************************************************)

NaN == [nan |-> TRUE, n |-> 0]

Num(n) == [nan |-> FALSE, n |-> n]

DigitChars == <<"0", "1", "2", "3", "4", "5", "6", "7", "8", "9">>

DigitValue(c) == (CHOOSE i \in 1..10 : DigitChars[i] = c) - 1

RECURSIVE DigitsValue(_, _)
\* the value of the digits of s, acc being the value of those read
DigitsValue(s, acc) ==
  IF s = << >> \/ ~IsDigit(s[1]) THEN acc
  ELSE DigitsValue(Tail(s), 10 * acc + DigitValue(s[1]))

\* the digits after the sign: NaN when there is none
ParseDigits(s, sign) ==
  IF s = << >> \/ ~IsDigit(s[1]) THEN NaN ELSE Num(sign * DigitsValue(s, 0))

\* the sign and the digits, after the leading white space
ParseSigned(s) ==
  IF s # << >> /\ s[1] = "-" THEN ParseDigits(Tail(s), -1)
  ELSE IF s # << >> /\ s[1] = "+" THEN ParseDigits(Tail(s), 1)
  ELSE ParseDigits(s, 1)

\* parseInt(s)
ParseInt(s) == ParseSigned(TrimStart(s))

RECURSIVE NatToString(_)
NatToString(n) ==
  IF n < 10 THEN <<DigitChars[n + 1]>>
  ELSE NatToString(n \div 10) \o <<DigitChars[(n % 10) + 1]>>

\* a || b for strings: b when a is null or empty
OrElse(a, b) == IF a = Null \/ a = << >> THEN b ELSE a

\* img.offsetWidth and img.offsetHeight: the img is an element of the
\* document DOMParser made, which has no layout
OffsetSize == 0

DefaultWidth == <<"2","0","0">>

DefaultHeight == <<"5","0">>

\* parseInt(img.getAttribute('width') || img.offsetWidth.toString() || '200')
OriginalSize(attr, dflt) == ParseInt(OrElse(OrElse(attr, NatToString(OffsetSize)), dflt))

\* Math.round(x * 1.2): no integer gives a product that ends in .5
RoundScaled(x) == IF x.nan THEN NaN ELSE Num((12 * x.n + 5) \div 10)

SizeAttrs ==
  {Null, << >>, <<"0">>, <<"5","0">>, <<"1","2","0">>, <<"3","0","0">>, <<" ","6","4">>, <<"4","8","p","x">>, <<"1","0","0","%">>, <<"a","u","t","o">>, <<"-","5">>}

InitLogo ==
  /\ logoImg \in [width : SizeAttrs, height : SizeAttrs]
  /\ logoOriginal = << >>
  /\ logoNew = << >>
  /\ logopc = "found"
  /\ IdleLife
  /\ IdleStyle
  /\ IdleUrl
  /\ IdleBody
  /\ IdleFixups
  /\ IdleSettings
  /\ IdleRoute

\* const originalWidth = ..., const originalHeight = ...
MeasureLogo ==
  /\ logopc = "found"
  /\ logoOriginal' = [width |-> OriginalSize(logoImg.width, DefaultWidth),
                      height |-> OriginalSize(logoImg.height, DefaultHeight)]
  /\ logopc' = "measured"
  /\ UNCHANGED <<logoImg, logoNew>>
  /\ UNCHANGED notLogo

\* const width = Math.round(originalWidth * 1.2) ...
\* newLogo.setAttribute('width', width.toString())
ReplaceLogo ==
  /\ logopc = "measured"
  /\ logoNew' = [width |-> RoundScaled(logoOriginal.width),
                 height |-> RoundScaled(logoOriginal.height)]
  /\ logopc' = "replaced"
  /\ UNCHANGED <<logoImg, logoOriginal>>
  /\ UNCHANGED notLogo

NextLogo == MeasureLogo \/ ReplaceLogo

(***************************************************************************)
(* Claim on the size of the replacement logo                               *)
(***************************************************************************)

\* the dimension the attribute gives, the default when the img has none (or
\* an empty one)
StatedOriginal(attr, dflt) == ParseInt(OrElse(attr, dflt))

\* C17: the width and height of the replacement logo are the original ones
\* increased by 20% and rounded, the original ones being the width and
\* height attributes of the img if present and 200 and 50 otherwise; so both
\* are strictly positive, also when the img has no such attribute
C17_LogoSize ==
  logopc = "replaced" =>
     /\ logoNew.width = RoundScaled(StatedOriginal(logoImg.width, DefaultWidth))
     /\ logoNew.height = RoundScaled(StatedOriginal(logoImg.height, DefaultHeight))
     /\ logoImg.width = Null => ~logoNew.width.nan /\ logoNew.width.n > 0
     /\ logoImg.height = Null => ~logoNew.height.nan /\ logoNew.height.n > 0

(***************************************************************************)
(* SpecSettings: the replace callback for data-settings attributes.  A     *)
(* JSON value is a record with its type in t: null, a number by its        *)
(* digits, a string, an array or an object by its members in order.        *)
(* The settings of the pages are written without white space, their        *)
(* strings hold no escape but the escaped slash, and none is a slideshow   *)
(* background, which the callback would replace.                           *)
(***************************************************************************)

JNull == [t |-> "null"]

JNum(v) == [t |-> "num", v |-> v]

JStr(v) == [t |-> "str", v |-> v]

JArr(v) == [t |-> "arr", v |-> v]

JObj(v) == [t |-> "obj", v |-> v]

\* what a failed parse returns: JSON.parse throws
NoParse == [ok |-> FALSE, next |-> 0, val |-> JNull]

Parsed(val, next) == [ok |-> TRUE, next |-> next, val |-> val]

\* the end of the run of digits that starts at i
DigitsEnd(s, i) == LeastOf({j \in i..(Len(s) + 1) : j > Len(s) \/ ~IsDigit(s[j])})

\* a string literal that opens at i and closes at c; c = 0: it never closes
ParseStringTo(s, i, c) ==
  IF c = 0 THEN NoParse
  ELSE Parsed(JStr(ReplaceAll(SubSeq(s, i + 1, c - 1), <<"\\","/">>, <<"/">>)), c + 1)

ParseString(s, i) ==
  IF i <= Len(s) /\ s[i] = "\"" THEN ParseStringTo(s, i, IndexFrom(s, "\"", i + 1))
  ELSE NoParse

RECURSIVE ParseValue(_, _), ParseElements(_, _, _), ParseMembers(_, _, _)

\* after an element of an array: ',' and the next one, or ']'
AfterElement(s, r, acc) ==
  IF ~r.ok \/ r.next > Len(s) THEN NoParse
  ELSE IF s[r.next] = "," THEN ParseElements(s, r.next + 1, Append(acc, r.val))
  ELSE IF s[r.next] = "]" THEN Parsed(JArr(Append(acc, r.val)), r.next + 1)
  ELSE NoParse

ParseElements(s, i, acc) == AfterElement(s, ParseValue(s, i), acc)

\* after the value of a member: ',' and the next member, or '}'
AfterMember(s, key, r, acc) ==
  IF ~r.ok \/ r.next > Len(s) THEN NoParse
  ELSE IF s[r.next] = "," THEN ParseMembers(s, r.next + 1, Append(acc, <<key.val.v, r.val>>))
  ELSE IF s[r.next] = "}" THEN Parsed(JObj(Append(acc, <<key.val.v, r.val>>)), r.next + 1)
  ELSE NoParse

\* after the key of a member: ':' and its value
AfterKey(s, key, acc) ==
  IF ~key.ok \/ key.next > Len(s) \/ s[key.next] # ":" THEN NoParse
  ELSE AfterMember(s, key, ParseValue(s, key.next + 1), acc)

ParseMembers(s, i, acc) == AfterKey(s, ParseString(s, i), acc)

\* the JSON value that starts at i
ParseValue(s, i) ==
  IF i > Len(s) THEN NoParse
  ELSE IF MatchAt(s, <<"n","u","l","l">>, i, FALSE) THEN Parsed(JNull, i + 4)
  ELSE IF IsDigit(s[i]) THEN Parsed(JNum(SubSeq(s, i, DigitsEnd(s, i) - 1)), DigitsEnd(s, i))
  ELSE IF s[i] = "\"" THEN ParseString(s, i)
  ELSE IF s[i] = "[" THEN (IF MatchAt(s, <<"[","]">>, i, FALSE) THEN Parsed(JArr(<< >>), i + 2)
                           ELSE ParseElements(s, i + 1, << >>))
  ELSE IF s[i] = "{" THEN (IF MatchAt(s, <<"{","}">>, i, FALSE) THEN Parsed(JObj(<< >>), i + 2)
                           ELSE ParseMembers(s, i + 1, << >>))
  ELSE NoParse

\* the value must end where the text ends
WholeText(s, r) == IF r.ok /\ r.next = Len(s) + 1 THEN r ELSE NoParse

\* JSON.parse(s)
JsonParse(s) == WholeText(s, ParseValue(s, 1))

RECURSIVE JsonStringify(_)
\* JSON.stringify(val): no white space, the slash not escaped
JsonStringify(val) ==
  IF val.t = "null" THEN <<"n","u","l","l">>
  ELSE IF val.t = "num" THEN val.v
  ELSE IF val.t = "str" THEN <<"\"">> \o val.v \o <<"\"">>
  ELSE IF val.t = "arr"
       THEN <<"[">> \o Join([k \in 1..Len(val.v) |-> JsonStringify(val.v[k])], <<",">>) \o <<"]">>
  ELSE <<"{">> \o Join([k \in 1..Len(val.v) |->
                        <<"\"">> \o val.v[k][1] \o <<"\"",":">> \o JsonStringify(val.v[k][2])], <<",">>)
       \o <<"}">>

\* Decode HTML entities: &amp; first, then &quot; &lt; &gt; &#39; &#x27;
DecodeEntities(s) ==
  ReplaceAll(ReplaceAll(ReplaceAll(ReplaceAll(ReplaceAll(ReplaceAll(s,
    <<"&","a","m","p",";">>, <<"&">>), <<"&","q","u","o","t",";">>, <<"\"">>), <<"&","l","t",";">>, <<"<">>), <<"&","g","t",";">>, <<">">>),
    <<"&","#","3","9",";">>, <<"'">>), <<"&","#","x","2","7",";">>, <<"'">>)

\* Re-encode for the HTML attribute: & first, then the quotes, < and >
EncodeEntities(s) ==
  ReplaceAll(ReplaceAll(ReplaceAll(ReplaceAll(ReplaceAll(s,
    <<"&">>, <<"&","a","m","p",";">>), <<"\"">>, <<"&","q","u","o","t",";">>), <<"'">>, <<"&","#","3","9",";">>), <<"<">>, <<"&","l","t",";">>), <<">">>, <<"&","g","t",";">>)

\* /https?:\/\/([^Q\/]+\.)?(alluredigital|rimalweb)\.net([^Q]*)/gi, Q being the
\* double quote

SettingsDomains == {<<"a","l","l","u","r","e","d","i","g","i","t","a","l">>, <<"r","i","m","a","l","w","e","b">>}

\* the position after http:// or https:// at j, 0 when neither is there
AfterScheme(s, j) ==
  IF MatchAt(s, <<"h","t","t","p","s",":","/","/">>, j, TRUE) THEN j + 8
  ELSE IF MatchAt(s, <<"h","t","t","p",":","/","/">>, j, TRUE) THEN j + 7
  ELSE 0

\* one of the domains and .net stand at position p
DomainAt(s, p) == \E d \in SettingsDomains : MatchAt(s, d \o <<".","n","e","t">>, p, TRUE)

\* the domain stands at h, or after a subdomain that starts at h
DomainStarts(s, h) ==
  {p \in h..Len(s) :
     /\ DomainAt(s, p)
     /\ p > h => p > h + 1 /\ s[p - 1] = "." /\ \A k \in h..(p - 1) : s[k] \notin {"\"", "/"}}

\* where the group of the domain starts for the match at j, 0 when none
DomainOfMatch(s, j) ==
  IF AfterScheme(s, j) = 0 \/ DomainStarts(s, AfterScheme(s, j)) = {} THEN 0
  ELSE CHOOSE p \in DomainStarts(s, AfterScheme(s, j)) :
         \A q \in DomainStarts(s, AfterScheme(s, j)) : q <= p

\* the match runs to the next double quote, or to the end of the string
SettingsMatchEnd(s, j) == GroupEndAt(s, IndexFrom(s, "\"", j)) - 1

\* urlToFix: domain === 'rimalweb' ? urlMatch.replace(/rimalweb\.net/gi, ...)
SettingsUrlToFix(urlMatch, domain) ==
  IF domain = <<"r","i","m","a","l","w","e","b">> THEN ReplaceAllCI(urlMatch, <<"r","i","m","a","l","w","e","b",".","n","e","t">>, <<"a","l","l","u","r","e","d","i","g","i","t","a","l",".","n","e","t">>)
  ELSE urlMatch

\* the group of the domain, which starts at p
DomainGroup(s, p) ==
  IF MatchAt(s, <<"r","i","m","a","l","w","e","b">>, p, TRUE) THEN SubSeq(s, p, p + 7) ELSE SubSeq(s, p, p + 12)

\* fixedUrl.replace(/\\/g, '\\\\').replace(/Q/g, '\\Q')
EscapeForJson(s) == ReplaceAll(ReplaceAll(s, <<"\\">>, <<"\\","\\">>), <<"\"">>, <<"\\","\"">>)

\* the callback of the replace call, for the match from j to e
SettingsUrlFixed(s, j, e, raw) ==
  IF raw
  THEN EscapeForJson(FixAssetUrl(SettingsUrlToFix(SubSeq(s, j, e),
                                                  DomainGroup(s, DomainOfMatch(s, j)))))
  ELSE FixAssetUrl(SettingsUrlToFix(SubSeq(s, j, e), DomainGroup(s, DomainOfMatch(s, j))))

RECURSIVE FixSettingsUrlsFrom(_, _, _)
\* the replacement from i on, the next match being at j (0: none)
FixSettingsUrlsAt(s, i, raw, j) ==
  IF j = 0 THEN SubSeq(s, i, Len(s))
  ELSE SubSeq(s, i, j - 1) \o SettingsUrlFixed(s, j, SettingsMatchEnd(s, j), raw)
       \o FixSettingsUrlsFrom(s, SettingsMatchEnd(s, j) + 1, raw)

FixSettingsUrlsFrom(s, i, raw) ==
  FixSettingsUrlsAt(s, i, raw, LeastOf({j \in i..Len(s) : DomainOfMatch(s, j) # 0}))

\* the replace call on the raw string, and on a string value
FixSettingsUrls(s, raw) == FixSettingsUrlsFrom(s, 1, raw)

RECURSIVE fixUrlsInObject(_)
fixUrlsInObject(obj) ==
  IF obj.t = "str" THEN JStr(FixSettingsUrls(obj.v, FALSE))
  ELSE IF obj.t = "arr" THEN JArr([k \in 1..Len(obj.v) |-> fixUrlsInObject(obj.v[k])])
  ELSE IF obj.t = "obj"
       THEN JObj([k \in 1..Len(obj.v) |-> <<obj.v[k][1], fixUrlsInObject(obj.v[k][2])>>])
  ELSE obj

Quoted(value) == <<"d","a","t","a","-","s","e","t","t","i","n","g","s","=","\"">> \o value \o <<"\"">>

\* parsed.background_background of a parsed value throws for null, is
\* undefined for a number or a string, and is no 'slideshow' in the pages
ReadsProperty(parsed) == parsed.t # "null"

\* the try block after JSON.parse succeeded; the catch returns match
RewriteParsed(match, parsed) ==
  IF ReadsProperty(parsed)
  THEN Quoted(EncodeEntities(JsonStringify(fixUrlsInObject(parsed))))
  ELSE match

ReturnsMatchOnBadJson(match, jsonStr, r) ==
  IF r.ok THEN RewriteParsed(match, r.val) ELSE match

\* the callback (match, jsonStr) => ..., r being what JSON.parse gave
RewriteSettings(match, jsonStr, r) ==
  IF r.ok THEN RewriteParsed(match, r.val)
  ELSE Quoted(FixSettingsUrls(jsonStr, TRUE))

(***************************************************************************)
(* The data-settings values of the pages                                   *)
(***************************************************************************)

UrlHero == <<"h","t","t","p","s",":","/","/","a","l","l","u","r","e","d","i","g","i","t","a","l",".","n","e","t","/","w","p","-","c","o","n","t","e","n","t","/","u","p","l","o","a","d","s","/","h","e","r","o","-","3","0","0","x","2","0","0",".","p","n","g">>

UrlBanner == <<"h","t","t","p","s",":","/","/","w","w","w",".","r","i","m","a","l","w","e","b",".","n","e","t","/","w","p","-","c","o","n","t","e","n","t","/","u","p","l","o","a","d","s","/","b","a","n","n","e","r",".","p","n","g">>

UrlCdn == <<"h","t","t","p","s",":","/","/","c","d","n",".","e","x","a","m","p","l","e",".","c","o","m","/","l","i","b",".","p","n","g">>

SettingsUrls == {UrlHero, UrlBanner, UrlCdn}

SettingsShapes == {"null", "number", "string", "object", "pair", "array"}

\* "none": as the page generator wrote it; "cut": its last character lost,
\* which leaves no brace after a URL for the URL parser to percent-encode
SettingsDamages == {"none", "cut"}

\* the slashes of a URL as PHP's json_encode writes them, or plain
Slashes(url, escaped) == IF escaped THEN ReplaceAll(url, <<"/">>, <<"\\","/">>) ELSE url

\* the JSON text of a shape, u being the text that stands for the URL
ShapeText(shape, u) ==
  IF shape = "null" THEN <<"n","u","l","l">>
  ELSE IF shape = "number" THEN <<"3","9","3">>
  ELSE IF shape = "string" THEN <<"\"">> \o u \o <<"\"">>
  ELSE IF shape = "object" THEN <<"{","\"","u","r","l","\"",":","\"">> \o u \o <<"\"","}">>
  ELSE IF shape = "pair" THEN <<"{","\"","u","r","l","\"",":","\"">> \o u \o <<"\"",",","\"","i","d","\"",":","3","9","3","}">>
  ELSE <<"[","\"">> \o u \o <<"\"",",","\"">> \o u \o <<"\"","]">>

Damaged(text, damage) ==
  IF damage = "cut" THEN SubSeq(text, 1, Len(text) - 1) ELSE text

\* a value with no string holds no URL
SettingsRequests ==
  {r \in [shape : SettingsShapes, url : SettingsUrls, escaped : BOOLEAN,
          damage : SettingsDamages] :
     r.shape \in {"null", "number"} => r.url = UrlCdn /\ ~r.escaped}

\* the value of the attribute as the page writes it
RawSettings(r) ==
  EncodeEntities(Damaged(ShapeText(r.shape, Slashes(r.url, r.escaped)), r.damage))

InitSettings ==
  /\ dsReq \in SettingsRequests
  /\ dsMatch = Quoted(RawSettings(dsReq))
  /\ dsOut = << >>
  /\ dsInner = << >>
  /\ dspc = "html"
  /\ IdleLife
  /\ IdleStyle
  /\ IdleUrl
  /\ IdleBody
  /\ IdleFixups
  /\ IdleLogo
  /\ IdleRoute

\* bodyHtml = bodyHtml.replace(/data-settings="([^"]*)"/gi, (match, jsonStr) => ...)
ReplaceSettings ==
  /\ dspc = "html"
  /\ dsOut' = RewriteSettings(dsMatch, RawSettings(dsReq),
                              JsonParse(DecodeEntities(RawSettings(dsReq))))
  /\ dspc' = "rewritten"
  /\ UNCHANGED <<dsReq, dsMatch, dsInner>>
  /\ UNCHANGED notSettings

\* the other passes leave the attribute as it is:
\* containerRef.current.innerHTML = cleanedHtml
InsertSettings ==
  /\ dspc = "rewritten"
  /\ dsInner' = dsOut
  /\ dspc' = "inserted"
  /\ UNCHANGED <<dsReq, dsMatch, dsOut>>
  /\ UNCHANGED notSettings

NextSettings == ReplaceSettings \/ InsertSettings

(***************************************************************************)
(* Claim on the data-settings callback                                     *)
(***************************************************************************)

\* the local asset of a URL of the two domains; other URLs stay
SettingsAsset(url) ==
  IF IncludesCI(url, <<"a","l","l","u","r","e","d","i","g","i","t","a","l",".","n","e","t">>) \/ IncludesCI(url, <<"r","i","m","a","l","w","e","b",".","n","e","t">>)
  THEN FixAssetUrl(ReplaceAllCI(url, <<"r","i","m","a","l","w","e","b",".","n","e","t">>, <<"a","l","l","u","r","e","d","i","g","i","t","a","l",".","n","e","t">>))
  ELSE url

\* the raw value with its URLs fixed and nothing else changed
RawFixed(r) ==
  EncodeEntities(Damaged(ShapeText(r.shape,
    IF SettingsAsset(r.url) # r.url THEN SettingsAsset(r.url) ELSE Slashes(r.url, r.escaped)),
    r.damage))

\* the requests whose decoded value is not valid JSON: a number that lost
\* its last digit is a number
NotJson(r) == r.damage = "cut" /\ r.shape # "number"

\* C18: the callback returns for every data-settings value; for one that is
\* not valid JSON it returns the attribute with its alluredigital and
\* rimalweb URLs fixed in the raw string; for valid JSON that makes the rest
\* fail, such as null, it returns the attribute unchanged; the content is
\* inserted afterwards
C18_SettingsRewrite ==
  /\ dspc # "html" =>
        /\ NotJson(dsReq) => dsOut = Quoted(RawFixed(dsReq))
        /\ (~NotJson(dsReq) /\ dsReq.shape = "null") => dsOut = dsMatch
        /\ StartsWith(dsOut, <<"d","a","t","a","-","s","e","t","t","i","n","g","s","=","\"">>)
  /\ dspc = "inserted" => dsInner = dsOut

(***************************************************************************)
(* SpecRoute: the route ShopifyDevelopment, which reads the HTML of the    *)
(* Bricks Builder page and rewrites it before it renders PageRenderer.     *)
(***************************************************************************)

\* the greatest number of phrases in the template
MaxPhrases == 2

\* the replace calls of the chain in their order, each <<pattern, replacement>>
ShopifyChain ==
  <<<<<<"B","r","i","c","k","s"," ","B","u","i","l","d","e","r"," ","D","e","v","e","l","o","p","m","e","n","t">>, <<"S","h","o","p","i","f","y"," ","D","e","v","e","l","o","p","m","e","n","t">>>>,
    <<<<"B","r","i","c","k","s"," ","B","u","i","l","d","e","r">>, <<"S","h","o","p","i","f","y">>>>,
    <<<<"B","r","i","c","k","s"," ","B","u","i","l","d","e","r"," ","D","e","v","e","l","o","p","m","e","n","t"," ","S","e","r","v","i","c","e","s"," ","-"," ","F","a","s","t",","," ","C","u","s","t","o","m"," ","W","e","b","s","i","t","e","s">>,
      <<"S","h","o","p","i","f","y"," ","D","e","v","e","l","o","p","m","e","n","t"," ","S","e","r","v","i","c","e","s"," ","-"," ","C","u","s","t","o","m"," ","E","-","c","o","m","m","e","r","c","e"," ","S","o","l","u","t","i","o","n","s">>>>,
    <<<<"B","r","i","c","k","s"," ","B","u","i","l","d","e","r"," ","D","e","v","e","l","o","p","m","e","n","t"," ","f","o","r"," ","w","e","b","s","i","t","e","s"," ","t","h","a","t"," ","l","o","o","k"," ","g","r","e","a","t",","," ","p","e","r","f","o","r","m"," ","b","e","t","t","e","r",","," ","a","n","d"," ","s","c","a","l","e"," ","w","i","t","h"," ","y","o","u","r"," ","b","u","s","i","n","e","s","s">>,
      <<"S","h","o","p","i","f","y"," ","D","e","v","e","l","o","p","m","e","n","t"," ","f","o","r"," ","e","-","c","o","m","m","e","r","c","e"," ","s","t","o","r","e","s"," ","t","h","a","t"," ","l","o","o","k"," ","g","r","e","a","t",","," ","p","e","r","f","o","r","m"," ","b","e","t","t","e","r",","," ","a","n","d"," ","s","c","a","l","e"," ","w","i","t","h"," ","y","o","u","r"," ","b","u","s","i","n","e","s","s">>>>,
    <<<<"B","u","i","l","t"," ","w","i","t","h"," ","B","r","i","c","k","s"," ","B","u","i","l","d","e","r",":"," ","c","l","e","a","n",","," ","f","a","s","t",","," ","a","n","d"," ","f","u","t","u","r","e","-","r","e","a","d","y">>,
      <<"B","u","i","l","t"," ","w","i","t","h"," ","S","h","o","p","i","f","y",":"," ","c","l","e","a","n",","," ","f","a","s","t",","," ","a","n","d"," ","f","u","t","u","r","e","-","r","e","a","d","y">>>>,
    <<<<"B","u","i","l","d"," ","M","y"," ","W","o","r","d","P","r","e","s","s"," ","S","i","t","e"," ","w","i","t","h"," ","B","r","i","c","k","s">>, <<"B","u","i","l","d"," ","M","y"," ","S","h","o","p","i","f","y"," ","S","t","o","r","e">>>>,
    <<<<"W","e"," ","a","r","e"," ","a","n"," ","i","n","n","o","v","a","t","i","v","e"," ","B","r","o","o","k","l","y","n"," ","W","o","r","d","P","r","e","s","s"," ","W","e","b"," ","D","e","v","e","l","o","p","m","e","n","t"," ","C","o","m","p","a","n","y"," ","s","p","e","c","i","a","l","i","z","i","n","g"," ","i","n"," ","d","e","s","i","g","n",","," ","d","e","v","e","l","o","p","m","e","n","t",","," ","s","u","p","p","o","r","t"," ","&","a","m","p",";"," ","m","a","i","n","t","e","n","a","n","c","e"," ","o","f"," ","W","o","r","d","P","r","e","s","s"," ","w","e","b","s","i","t","e","s">>,
      <<"W","e"," ","a","r","e"," ","a","n"," ","i","n","n","o","v","a","t","i","v","e"," ","e","-","c","o","m","m","e","r","c","e"," ","d","e","v","e","l","o","p","m","e","n","t"," ","c","o","m","p","a","n","y"," ","s","p","e","c","i","a","l","i","z","i","n","g"," ","i","n"," ","d","e","s","i","g","n",","," ","d","e","v","e","l","o","p","m","e","n","t",","," ","s","u","p","p","o","r","t"," ","&"," ","m","a","i","n","t","e","n","a","n","c","e"," ","o","f"," ","S","h","o","p","i","f","y"," ","s","t","o","r","e","s">>>>,
    <<<<"B","r","i","c","k","s"," ","B","u","i","l","d","e","r"," ","D","e","v","e","l","o","p","m","e","n","t"," ","|"," ","W","e","b"," ","D","e","v","e","l","o","p","m","e","n","t"," ","A","g","e","n","c","y">>,
      <<"S","h","o","p","i","f","y"," ","D","e","v","e","l","o","p","m","e","n","t"," ","|"," ","E","-","c","o","m","m","e","r","c","e"," ","D","e","v","e","l","o","p","m","e","n","t"," ","A","g","e","n","c","y">>>>>>

RECURSIVE ReplaceChain(_, _, _)
\* htmlContent.replace(p1, r1).replace(p2, r2)..., from the call k on
ReplaceChain(s, chain, k) ==
  IF k > Len(chain) THEN s
  ELSE ReplaceChain(ReplaceAllCI(s, chain[k][1], chain[k][2]), chain, k + 1)

\* the chain of the route
ShopifyContent(htmlContent) == ReplaceChain(htmlContent, ShopifyChain, 1)

\* what page_0015.html may hold: the phrases of the chain as the page
\* writes them, and text the chain leaves alone
TemplatePhrases ==
  {ShopifyChain[k][1] : k \in 3..Len(ShopifyChain)}
    \cup {<<"b","r","i","c","k","s"," ","b","u","i","l","d","e","r"," ","d","e","v","e","l","o","p","m","e","n","t">>, <<"W","h","y"," ","B","r","i","c","k","s"," ","B","u","i","l","d","e","r","?">>, <<"C","o","n","t","a","c","t"," ","u","s">>}

\* the phrases stand in elements of their own
TemplateOf(phrases) == Join([k \in 1..Len(phrases) |-> <<"<","p",">">> \o phrases[k] \o <<"<","/","p",">">>], << >>)

Templates == {TemplateOf(ps) : ps \in UNION {[1..n -> TemplatePhrases] : n \in 1..MaxPhrases}}

InitRoute ==
  /\ rtTemplate \in Templates
  /\ rtHtml = << >>
  /\ rtpc = "read"
  /\ IdleLife
  /\ IdleStyle
  /\ IdleUrl
  /\ IdleBody
  /\ IdleFixups
  /\ IdleLogo
  /\ IdleSettings

\* htmlContent = htmlContent.replace(...)...; return <PageRenderer html={htmlContent} />
RenderShopify ==
  /\ rtpc = "read"
  /\ rtHtml' = ShopifyContent(rtTemplate)
  /\ rtpc' = "rendered"
  /\ UNCHANGED rtTemplate
  /\ UNCHANGED notRoute

NextRoute == RenderShopify

(***************************************************************************)
(* Claim on the route                                                      *)
(***************************************************************************)

\* C19: every substitution of the chain is effective: when the template
\* holds a listed phrase, the html handed to PageRenderer holds the
\* replacement listed for that phrase, whatever the shorter substitutions
\* before it did
C19_ChainEffective ==
  rtpc = "rendered" =>
     \A k \in 1..Len(ShopifyChain) :
        IncludesCI(rtTemplate, ShopifyChain[k][1]) => Includes(rtHtml, ShopifyChain[k][2])

(***************************************************************************)
(* Specifications                                                          *)
(***************************************************************************)

vars == <<lifeVars, styleVars, urlVars, bodyVars, fixupsVars, logoVars, settingsVars, routeVars>>

Spec == Init /\ [][Next]_vars

\* the effect runs once it is due; timers fire; every appended script fires
\* load or error
Fairness ==
  /\ WF_vars(Effect)
  /\ WF_vars(\E t \in AllTimers : TimerFire(t))
  /\ \A s \in AllScripts : WF_vars(ScriptLoad(s) \/ ScriptError(s))

FairSpec == Spec /\ Fairness

SpecStyle == InitStyle /\ [][NextStyle]_vars

SpecUrl == InitUrl /\ [][NextUrl]_vars

SpecBody == InitBody /\ [][NextBody]_vars

SpecFixups == InitFixups /\ [][NextFixups]_vars

SpecLogo == InitLogo /\ [][NextLogo]_vars

SpecSettings == InitSettings /\ [][NextSettings]_vars

SpecRoute == InitRoute /\ [][NextRoute]_vars

=============================================================================
